---- MODULE Spec2Model ----
(***************************************************************************)
(* MindPrint: the distillation tool (nanobot/agent/tools/mindprint.py),    *)
(* its redactor, extractor and formatter, and the sync command of          *)
(* nanobot/skills/mindprint/mindprint_cli.py.                              *)
(*                                                                         *)
(* A text is a sequence of one-character strings.  Regular expressions are *)
(* matched the way Python's re module matches them: leftmost, the          *)
(* alternatives in their written order, greedy repetition with             *)
(* backtracking, \b evaluated on the text being searched.                  *)
(***************************************************************************)
EXTENDS Integers, Sequences, FiniteSets, TLC

(***************************************************************************)
(* Characters and character classes (re.IGNORECASE is set on every call).  *)
(***************************************************************************)
Lower == {"a","b","c","d","e","f","g","h","i","j","k","l","m",
          "n","o","p","q","r","s","t","u","v","w","x","y","z"}

Upper == {"A","B","C","D","E","F","G","H","I","J","K","L","M",
          "N","O","P","Q","R","S","T","U","V","W","X","Y","Z"}

Digit == {"0","1","2","3","4","5","6","7","8","9"}

Letter == Lower \cup Upper

\* \w
WordChar == Letter \cup Digit \cup {"_"}

\* \s
Space == {" ", "\n", "\t", "\r"}

LowerSeq == <<"a","b","c","d","e","f","g","h","i","j","k","l","m",
              "n","o","p","q","r","s","t","u","v","w","x","y","z">>

UpperSeq == <<"A","B","C","D","E","F","G","H","I","J","K","L","M",
              "N","O","P","Q","R","S","T","U","V","W","X","Y","Z">>

\* str.lower() on one character
LowerChar(c) ==
    IF c \in Upper
    THEN LowerSeq[CHOOSE i \in 1..26 : UpperSeq[i] = c]
    ELSE c

\* str.upper() on one character
UpperChar(c) ==
    IF c \in Lower
    THEN UpperSeq[CHOOSE i \in 1..26 : LowerSeq[i] = c]
    ELSE c

\* str.lower()
ToLower(s) == [i \in 1..Len(s) |-> LowerChar(s[i])]

\* str.upper()
ToUpper(s) == [i \in 1..Len(s) |-> UpperChar(s[i])]

\* sub occurs in s at position i
OccursAt(sub, s, i) ==
    /\ i + Len(sub) - 1 <= Len(s)
    /\ \A j \in 1..Len(sub) : s[i + j - 1] = sub[j]

\* sub in s (the Python operator in, on str)
Contains(sub, s) == \E i \in 1..Len(s) : OccursAt(sub, s, i)

\* number of positions at which sub occurs in s
CountOcc(sub, s) == Cardinality({ i \in 1..Len(s) : OccursAt(sub, s, i) })

(***************************************************************************)
(* Regular expression items.  A pattern is a sequence of items; an item is *)
(* a word boundary, a greedy repetition of a character class, or a group   *)
(* of alternatives (each a sequence of items).                             *)
(***************************************************************************)
NoSet == {}

\* \b
Bnd == [t |-> "b", cls |-> NoSet, neg |-> FALSE, lo |-> 0, hi |-> 0,
        unb |-> FALSE, alts |-> <<>>]

\* [cls]{lo,hi}
Rep(cls, lo, hi) == [t |-> "r", cls |-> cls, neg |-> FALSE, lo |-> lo,
                     hi |-> hi, unb |-> FALSE, alts |-> <<>>]

\* [cls]+ or [cls]{lo,}
RepUnb(cls, lo) == [t |-> "r", cls |-> cls, neg |-> FALSE, lo |-> lo,
                    hi |-> lo, unb |-> TRUE, alts |-> <<>>]

\* [^cls]+
NegPlus(cls) == [t |-> "r", cls |-> cls, neg |-> TRUE, lo |-> 1,
                 hi |-> 1, unb |-> TRUE, alts |-> <<>>]

\* (?:a1|a2|...)
Alt(alts) == [t |-> "a", cls |-> NoSet, neg |-> FALSE, lo |-> 0, hi |-> 0,
              unb |-> FALSE, alts |-> alts]

\* one class, exactly once
One(cls) == Rep(cls, 1, 1)

\* [cls]?
Opt(cls) == Rep(cls, 0, 1)

\* a literal under re.IGNORECASE
Lit(s) == [i \in 1..Len(s) |-> One({LowerChar(s[i]), UpperChar(s[i])})]

\* does character c belong to the item's class
InClass(it, c) == IF it.neg THEN c \notin it.cls ELSE c \in it.cls

\* \b holds between s[i-1] and s[i]
IsBoundary(s, i) ==
    LET before == i > 1 /\ i - 1 <= Len(s) /\ s[i-1] \in WordChar
        after  == i >= 1 /\ i <= Len(s) /\ s[i] \in WordChar
    IN before # after

RECURSIVE RunLen(_, _, _)
\* number of consecutive characters of s from position i in the item's class
RunLen(it, s, i) ==
    IF i > Len(s) \/ ~InClass(it, s[i]) THEN 0
    ELSE 1 + RunLen(it, s, i + 1)

Min(a, b) == IF a < b THEN a ELSE b

RECURSIVE MatchEnd(_, _, _)
RECURSIVE TryRep(_, _, _, _, _)
RECURSIVE TryAlt(_, _, _, _)

\* The position after the match of the item sequence at position i, as the
\* backtracking matcher finds it (the first success in priority order);
\* 0 when there is none.
MatchEnd(items, s, i) ==
    IF items = <<>> THEN i
    ELSE LET it   == Head(items)
             rest == Tail(items)
         IN  IF it.t = "b"
             THEN IF IsBoundary(s, i) THEN MatchEnd(rest, s, i) ELSE 0
             ELSE IF it.t = "r"
             THEN LET n == RunLen(it, s, i)
                      k == IF it.unb THEN n ELSE Min(n, it.hi)
                  IN  TryRep(rest, s, i, k, it.lo)
             ELSE TryAlt(it.alts, rest, s, i)

\* greedy: the longest repetition first, then one character fewer
TryRep(rest, s, i, k, lo) ==
    IF k < lo THEN 0
    ELSE LET e == MatchEnd(rest, s, i + k)
         IN  IF e # 0 THEN e ELSE TryRep(rest, s, i, k - 1, lo)

\* alternatives in written order
TryAlt(alts, rest, s, i) ==
    IF alts = <<>> THEN 0
    ELSE LET e == MatchEnd(Head(alts) \o rest, s, i)
         IN  IF e # 0 THEN e ELSE TryAlt(Tail(alts), rest, s, i)

RECURSIVE MatchesFrom(_, _, _)
\* the non-overlapping matches from position i on, scanning left to right;
\* ends[j] is the end of the match that starts at j (0: none)
MatchesFrom(ends, len, i) ==
    LET starts == { j \in i..len : ends[j] # 0 }
    IN  IF starts = {} THEN <<>>
        ELSE LET j == CHOOSE m \in starts : \A o \in starts : m <= o
             IN  << [b |-> j, e |-> ends[j]] >> \o MatchesFrom(ends, len, ends[j])

\* re.finditer(pattern, s): the matches as (first position, position after)
FindAll(pat, s) ==
    MatchesFrom([j \in 1..Len(s) |-> MatchEnd(pat, s, j)], Len(s), 1)

RECURSIVE Splice(_, _, _, _, _)
\* s with the matches ms[k..] replaced by repl, from position pos on
Splice(s, ms, repl, k, pos) ==
    IF k > Len(ms) THEN SubSeq(s, pos, Len(s))
    ELSE SubSeq(s, pos, ms[k].b - 1) \o repl
         \o Splice(s, ms, repl, k + 1, ms[k].e)

\* re.sub(pattern, repl, s, count=1): only the leftmost match is replaced
ReSubFirst(pat, repl, s) ==
    LET ms == FindAll(pat, s)
    IN  Splice(s, SubSeq(ms, 1, Min(1, Len(ms))), repl, 1, 1)

\* re.sub(pattern, repl, s, flags=re.IGNORECASE)
ReSub(pat, repl, s) == Splice(s, FindAll(pat, s), repl, 1, 1)

\* len(re.findall(pattern, s, flags=re.IGNORECASE))
ReCount(pat, s) == Len(FindAll(pat, s))

\* re.search(pattern, s) is not None
ReSearch(pat, s) == \E i \in 1..Len(s) : MatchEnd(pat, s, i) # 0

(***************************************************************************)
(* PII_PATTERNS, in declaration order.                                     *)
(***************************************************************************)
\* \b[A-Za-z0-9._%+-]+@[A-Za-z0-9.-]+\.[A-Z|a-z]{2,}\b
EmailPattern ==
    << Bnd,
       RepUnb(Letter \cup Digit \cup {".", "_", "%", "+", "-"}, 1),
       One({"@"}),
       RepUnb(Letter \cup Digit \cup {".", "-"}, 1),
       One({"."}),
       RepUnb(Letter \cup {"|"}, 2),
       Bnd >>

\* \b\d{3}[-.]?\d{3}[-.]?\d{4}\b|\b\+?1?\s?[().-]?\d{3}[().-]?\d{3}[-.]?\d{4}\b
PhonePattern ==
    << Alt(<< << Bnd, Rep(Digit, 3, 3), Opt({"-", "."}), Rep(Digit, 3, 3),
                 Opt({"-", "."}), Rep(Digit, 4, 4), Bnd >>,
              << Bnd, Opt({"+"}), Opt({"1"}), Opt(Space),
                 Opt({"(", ")", ".", "-"}), Rep(Digit, 3, 3),
                 Opt({"(", ")", ".", "-"}), Rep(Digit, 3, 3),
                 Opt({"-", "."}), Rep(Digit, 4, 4), Bnd >> >>) >>

\* https://[^\s\)]+|www\.[^\s\)]+ : the scheme without the optional s
UrlPatternSecureOnly ==
    << Alt(<< Lit(<<"h","t","t","p","s">>)
                  \o Lit(<<":","/","/">>) \o << NegPlus(Space \cup {")"}) >>,
              Lit(<<"w","w","w",".">>) \o << NegPlus(Space \cup {")"}) >> >>) >>

\* https?://[^\s\)]+|www\.[^\s\)]+
UrlPattern ==
    << Alt(<< Lit(<<"h","t","t","p">>) \o << Opt({"s", "S"}) >>
                  \o Lit(<<":","/","/">>) \o << NegPlus(Space \cup {")"}) >>,
              Lit(<<"w","w","w",".">>) \o << NegPlus(Space \cup {")"}) >> >>) >>

\* \b(?:\d{1,3}\.){3}\d{1,3}\b
IpPattern ==
    << Bnd,
       Rep(Digit, 1, 3), One({"."}),
       Rep(Digit, 1, 3), One({"."}),
       Rep(Digit, 1, 3), One({"."}),
       Rep(Digit, 1, 3),
       Bnd >>

\* \b(?:api[_-]?key|secret|token|password)\s*[:=]\s*['"]?[A-Za-z0-9_\-\.]+['"]?\b
ApiKeyPattern ==
    << Bnd,
       Alt(<< Lit(<<"a","p","i">>) \o << Opt({"_", "-"}) >>
                  \o Lit(<<"k","e","y">>),
              Lit(<<"s","e","c","r","e","t">>),
              Lit(<<"t","o","k","e","n">>),
              Lit(<<"p","a","s","s","w","o","r","d">>) >>),
       RepUnb(Space, 0),
       One({":", "="}),
       RepUnb(Space, 0),
       Opt({"'", "\""}),
       RepUnb(Letter \cup Digit \cup {"_", "-", "."}, 1),
       Opt({"'", "\""}),
       Bnd >>

\* the dict PII_PATTERNS: (name, pattern) in insertion order
PII_PATTERNS ==
    << [name |-> <<"e","m","a","i","l">>, pattern |-> EmailPattern],
       [name |-> <<"p","h","o","n","e">>, pattern |-> PhonePattern],
       [name |-> <<"u","r","l">>, pattern |-> UrlPattern],
       [name |-> <<"i","p","_","a","d","d","r","e","s","s">>,
        pattern |-> IpPattern],
       [name |-> <<"a","p","i","_","k","e","y">>, pattern |-> ApiKeyPattern] >>

NumRules == Len(PII_PATTERNS)

\* f"[{pattern_name.upper()}]"
Placeholder(k) == <<"[">> \o ToUpper(PII_PATTERNS[k].name) \o <<"]">>

\* one iteration of the loop of _redact_pii: rule k over the whole text
ApplyRule(k, content) ==
    ReSub(PII_PATTERNS[k].pattern, Placeholder(k), content)

RECURSIVE RedactFrom(_, _)
RedactFrom(k, content) ==
    IF k > NumRules THEN content
    ELSE RedactFrom(k + 1, ApplyRule(k, content))

\* _redact_pii
RedactPii(content) == RedactFrom(1, content)

(***************************************************************************)
(* _distill_content: redact, extract, format.                              *)
(***************************************************************************)
\* content.split('\n')
SplitLines(s) ==
    LET nl     == { i \in 1..Len(s) : s[i] = "\n" }
        n      == Cardinality(nl)
        nth(k) == CHOOSE i \in nl : Cardinality({ j \in nl : j <= i }) = k
    IN  [k \in 1..(n + 1) |->
            SubSeq(s, IF k = 1 THEN 1 ELSE nth(k - 1) + 1,
                      IF k = n + 1 THEN Len(s) ELSE nth(k) - 1)]

RECURSIVE LStrip(_, _)
\* str.lstrip(chars)
LStrip(s, chars) ==
    IF s # <<>> /\ Head(s) \in chars THEN LStrip(Tail(s), chars) ELSE s

RECURSIVE RStrip(_, _)
\* str.rstrip(chars)
RStrip(s, chars) ==
    IF s # <<>> /\ s[Len(s)] \in chars
    THEN RStrip(SubSeq(s, 1, Len(s) - 1), chars) ELSE s

\* str.strip()
Strip(s) == RStrip(LStrip(s, Space), Space)

\* seq[:n]
Take(seq, n) == SubSeq(seq, 1, Min(n, Len(seq)))

concept_keywords ==
    << <<"p","a","t","t","e","r","n">>,
       <<"a","r","c","h","i","t","e","c","t","u","r","e">>,
       <<"d","e","s","i","g","n">>,
       <<"s","y","s","t","e","m">>,
       <<"p","r","o","c","e","s","s">>,
       <<"f","r","a","m","e","w","o","r","k">>,
       <<"a","p","p","r","o","a","c","h">> >>

methodology_keywords ==
    << <<"w","o","r","k","f","l","o","w">>,
       <<"p","i","p","e","l","i","n","e">>,
       <<"s","t","r","a","t","e","g","y">>,
       <<"m","e","t","h","o","d">>,
       <<"t","e","c","h","n","i","q","u","e">> >>

learning_keywords ==
    << <<"l","e","a","r","n","e","d">>,
       <<"d","i","s","c","o","v","e","r","e","d">>,
       <<"r","e","a","l","i","z","e","d">>,
       <<"f","o","u","n","d">>,
       <<"i","n","s","i","g","h","t">> >>

\* any(keyword in line_lower for keyword in keywords)
AnyKeyword(keywords, lineLower) ==
    \E k \in 1..Len(keywords) : Contains(keywords[k], lineLower)

\* the lines of content that the loop of _extract_patterns does not skip
ConsideredLines(content) ==
    SelectSeq(SplitLines(content),
              LAMBDA line : Strip(line) # <<>> /\ Head(Strip(line)) # "#")

\* the length test written as len(stripped) >= 15
ExtractedInclusive(content, keywords) ==
    LET hits == SelectSeq(ConsideredLines(content),
                    LAMBDA line : /\ AnyKeyword(keywords, ToLower(line))
                                  /\ Len(Strip(line)) >= 15)
    IN  [i \in 1..Len(hits) |-> Strip(hits[i])]

\* the stripped lines that contain a keyword and are longer than 15
Extracted(content, keywords) ==
    LET hits == SelectSeq(ConsideredLines(content),
                    LAMBDA line : /\ AnyKeyword(keywords, ToLower(line))
                                  /\ Len(Strip(line)) > 15)
    IN  [i \in 1..Len(hits) |-> Strip(hits[i])]

\* _extract_patterns
ExtractPatterns(content) ==
    [concepts      |-> Extracted(content, concept_keywords),
     methodologies |-> Extracted(content, methodology_keywords),
     learnings     |-> Extracted(content, learning_keywords)]

\* hash(x) of a str under the hash seed of the running process; the real
\* function is not specified: only that it depends on x and on the seed
StrHash(x, seed) == Len(x) + seed

RECURSIVE Dedup(_)
\* the distinct elements of a sequence, in order of first occurrence
Dedup(seq) ==
    IF seq = <<>> THEN <<>>
    ELSE LET front == Dedup(SubSeq(seq, 1, Len(seq) - 1))
             x     == seq[Len(seq)]
         IN  IF \E j \in 1..Len(front) : front[j] = x THEN front
             ELSE Append(front, x)

RECURSIVE InsertBySlot(_, _, _)
\* insert x into the slot-ordered sequence; equal slots keep insertion order
InsertBySlot(sorted, x, seed) ==
    IF sorted = <<>> THEN << x >>
    ELSE IF StrHash(x, seed) % 8 < StrHash(Head(sorted), seed) % 8
         THEN << x >> \o sorted
         ELSE << Head(sorted) >> \o InsertBySlot(Tail(sorted), x, seed)

RECURSIVE SlotSort(_, _)
SlotSort(seq, seed) ==
    IF seq = <<>> THEN <<>>
    ELSE InsertBySlot(SlotSort(SubSeq(seq, 1, Len(seq) - 1), seed),
                      seq[Len(seq)], seed)

\* list(set(items)): the iteration order of a set of str follows the hash
\* slots, which depend on the hash seed of the process
ListOfSet(items, seed) == SlotSort(Dedup(items), seed)


\* p.lstrip('-*').strip()
CleanItem(p) == Strip(LStrip(p, {"-", "*"}))

\* the items cleaned and cut to the limit, without set(...)
LimitedWithRepeats(items, limit, seed) ==
    LET kept == SelectSeq(Take(items, 15), LAMBDA q : Len(q) > 15)
    IN  Take([i \in 1..Len(kept) |-> CleanItem(kept[i])], limit)

\* list(set(p.lstrip('-*').strip() for p in items[:15] if len(p) > 15))[:limit]
Limited(items, limit, seed) ==
    LET kept == SelectSeq(Take(items, 15), LAMBDA q : Len(q) > 15)
    IN  Take(ListOfSet([i \in 1..Len(kept) |-> CleanItem(kept[i])], seed),
             limit)

\* a line of the template
Fixed(str) == [kind |-> "fixed", lit |-> str, body |-> <<>>]

\* f"- {item}\n"
Bullet(item) == [kind |-> "bullet", lit |-> "- ", body |-> item]

Bullets(items) == [i \in 1..Len(items) |-> Bullet(items[i])]

\* the opening of the template (its long dash written as a hyphen)
TemplateHead ==
    << Fixed("# Thinking Pattern"),
       Fixed(""),
       Fixed("This document represents your distilled cognition-your thinking patterns and methodologies"),
       Fixed("generalized for knowledge sharing. All personally identifiable information and proprietary "),
       Fixed("details have been automatically removed."),
       Fixed(""),
       Fixed("## Core Concepts & Frameworks"),
       Fixed(""),
       Fixed("Key concepts that shape your approach:"),
       Fixed("") >>

DefaultConcepts ==
    << Fixed("- Pattern recognition and analysis"),
       Fixed("- Systematic problem-solving") >>

DefaultMethodologies ==
    << Fixed("- Systematic analysis and documentation"),
       Fixed("- Iterative improvement cycles") >>

TemplateTail ==
    << Fixed(""),
       Fixed("## Thinking Patterns"),
       Fixed(""),
       Fixed("This cognition represents:"),
       Fixed("- Your approach to problem-solving and analysis"),
       Fixed("- Methodologies you apply across domains"),
       Fixed("- Frameworks that guide your decisions"),
       Fixed("- Patterns you've recognized and internalized"),
       Fixed(""),
       Fixed("## Privacy & Redaction"),
       Fixed(""),
       Fixed("This file has been automatically processed to remove:"),
       Fixed("- Personal names and identifiers"),
       Fixed("- Email addresses and phone numbers"),
       Fixed("- Company names and internal systems"),
       Fixed("- Customer/account information"),
       Fixed("- Proprietary data and credentials"),
       Fixed("- Specific dates and identifying details"),
       Fixed(""),
       Fixed("**Core thinking patterns and methodologies are preserved for knowledge sharing.**"),
       Fixed(""),
       Fixed("---"),
       Fixed(""),
       Fixed("*Generated by MindPrint - Automated Cognition Distillation*"),
       Fixed("*Protect your privacy while sharing your expertise*") >>

\* _format_cognition: the Markdown text, line by line
FormatCognition(patterns, seed) ==
    LET concepts      == Limited(patterns.concepts, 10, seed)
        methodologies == Limited(patterns.methodologies, 10, seed)
        learnings     == Limited(patterns.learnings, 5, seed)
    IN  TemplateHead
        \o (IF concepts # <<>> THEN Bullets(concepts) ELSE DefaultConcepts)
        \o << Fixed(""), Fixed("## Methodologies & Approaches"), Fixed("") >>
        \o (IF methodologies # <<>> THEN Bullets(methodologies)
            ELSE DefaultMethodologies)
        \o (IF learnings # <<>>
            THEN << Fixed(""), Fixed("## Key Insights"), Fixed("") >>
                 \o Bullets(learnings)
            ELSE <<>>)
        \o TemplateTail

\* _distill_content
DistillContent(content, seed) ==
    FormatCognition(ExtractPatterns(RedactPii(content)), seed)

\* _count_redactions: (name, count) of the rules with a match, in rule order
CountRedactions(content) ==
    LET all == [k \in 1..NumRules |->
                  [name  |-> PII_PATTERNS[k].name,
                   count |-> ReCount(PII_PATTERNS[k].pattern, content)]]
    IN  SelectSeq(all, LAMBDA c : c.count > 0)

\* f"# Memory\n\n{memory_content}\n\n# History\n\n{history_content}"
Combined(memory_content, history_content) ==
    <<"#"," ","M","e","m","o","r","y","\n","\n">> \o memory_content \o <<"\n","\n","#"," ","H","i","s","t","o","r","y","\n","\n">> \o history_content

(***************************************************************************)
(* State.                                                                  *)
(***************************************************************************)
VARIABLES
    src,       \* source locations: the files MEMORY.md and HISTORY.md
    dirs,      \* output locations: the directory and the files in it
    hashSeed,  \* the str hash seed of the process running the tool
    call,      \* the arguments of the last call of execute, and the fault
               \* the file system answered it with
    result,    \* what the last call of execute returned
    distilled, \* the local variable distilled of the last _distill
    pre,       \* dirs as it was when the last call started
    made,      \* per output location: the combined text whose distillation
               \* the artifact there holds (empty: none)
    dbUp,      \* the database accepts connections
    memoryData,\* the rows of the table memory_data
    sellers,   \* the user ids in the table sellers
    syncLog,   \* the records the last run of sync_cognition logged
    dbCalls,   \* the database operations the last run of sync_cognition
               \* completed, in order
    xIn,       \* the text given to _extract_patterns
    xOut,      \* the patterns it returned
    xDone,     \* it has returned
    sents,     \* the SentenceSet given to the signal scorer
    sIdx,      \* how many of its sentences the scorer has processed
    signals,   \* the SignalVector
    sigPrev,   \* the SignalVector before the last sentence processed
    traits,    \* the TraitProfile the trait mapper returned
    pRaw,      \* the combined text given to _distill_content
    pTrace,    \* the stages of the invocation that have completed, in order
    pRedacted, \* the local variable redacted of _distill_content
    pPatterns, \* the local variable patterns
    pText,     \* the local variable formatted
    pFile,     \* the lines of cognition.md after the invocation wrote it
    rcText,    \* per concurrent invocation: the text it distilled
    rcPc,      \* per concurrent invocation: its position in write_text
    rcFile,    \* the lines of the cognition.md both invocations write
    rcTrace,   \* the file operations the two invocations have done, in order
    stBackend, \* which store_memory serves /api/memory: api.py (sqlite) or api_postgres.py
    stRows,    \* the committed rows of memory_data written by store_memory, oldest first
    stReq,     \* per request slot: the request of store_memory running there
    stStarted, \* number of store_memory requests started
    pnFiles,   \* the files of DATA_DIR: filepath -> content
    pnRows,    \* the rows of the table personas: id -> filepath
    pnReturned, \* the persona ids returned by successful uploads, with the content uploaded
    pnLast,    \* the response to the last upload request
    pnCount,   \* number of upload requests made
    plFiles,   \* the files written under the workspace of the buyer: path -> content
    plDirs,    \* the directories pull_persona_by_token has created there
    plBuyers,  \* the user ids in the table buyers
    plLatest,  \* per synced file_path: the content of its most recent sync
    rIn,       \* the text handed to _redact_pii
    rCur,      \* the local variable content of _redact_pii
    rPrev,     \* content before the last loop iteration
    rIdx,      \* number of loop iterations done
    rPass,     \* 1: redacting the input, 2: the output has been redacted again
    rOut1      \* the value returned by the first call

toolVars == <<src, dirs, hashSeed, call, result, distilled, pre, made>>

redactVars == <<rIn, rCur, rPrev, rIdx, rPass, rOut1>>

syncVars == <<dbUp, memoryData, sellers, syncLog, dbCalls>>

extractVars == <<xIn, xOut, xDone>>

scoreVars == <<sents, sIdx, signals, sigPrev, traits>>

pipeVars == <<pRaw, pTrace, pRedacted, pPatterns, pText, pFile>>

raceVars == <<rcText, rcPc, rcFile, rcTrace>>

storeVars == <<stBackend, stRows, stReq, stStarted>>

personaVars == <<pnFiles, pnRows, pnReturned, pnLast, pnCount>>

pullVars == <<plFiles, plDirs, plBuyers, plLatest>>

backVars == <<pipeVars, raceVars, storeVars, personaVars, pullVars>>

stageVars == <<xIn, xOut, xDone, sents, sIdx, signals, sigPrev, traits, backVars>>

vars == <<src, dirs, hashSeed, call, result, distilled, pre, made,
          dbUp, memoryData, sellers, syncLog, dbCalls,
          xIn, xOut, xDone, sents, sIdx, signals, sigPrev, traits,
          pRaw, pTrace, pRedacted, pPatterns, pText, pFile,
          rcText, rcPc, rcFile, rcTrace,
          stBackend, stRows, stReq, stStarted,
          pnFiles, pnRows, pnReturned, pnLast, pnCount,
          plFiles, plDirs, plBuyers, plLatest,
          rIn, rCur, rPrev, rIdx, rPass, rOut1>>

(***************************************************************************)
(* The file system the tool works on.                                      *)
(***************************************************************************)
\* source locations (the argument path); p2 never holds a source document
Paths == {"p1", "p2"}

\* output locations
Dirs == {"d1", "d2"}

\* base_path / ".mindprint"
DefaultOut(path) == IF path = "p1" THEN "d1" ELSE "d2"

DocB == <<"J","o","h","n"," ","S","m","i","t","h"," ","s","y","s","t","e","m"," ","d","e","s","i","g","n","\n","o","u","r"," ","d","e","s","i","g","n"," ","f","r","a","m","e","w","o","r","k"," ","o","k">>

DocC == <<"-"," ","m","a","i","l"," ","a","@","b",".","c","o","m"," ","l","e","a","r","n","e","d"," ","t","h","e"," ","w","o","r","k","f","l","o","w">>

\* the texts MEMORY.md can hold
MemDocs == {DocB}

\* the texts HISTORY.md can hold
HistDocs == {DocC}

\* the largest hash seed of a process (seeds are 0..MaxSeed)
MaxSeed == 1

Seeds == 0..MaxSeed

NoFile == [exists |-> FALSE, data |-> <<>>]

FileOf(text) == [exists |-> TRUE, data |-> text]

NoDir == [exists |-> FALSE, names |-> {}, cog |-> <<>>]

NoCall == [action |-> "none", path |-> "", out |-> "", fault |-> "none",
           hadMem |-> FALSE, hadHist |-> FALSE]

\* a value returned by execute
Res(kind, path, dir, counts, found) ==
    [kind |-> kind, path |-> path, dir |-> dir, counts |-> counts,
     found |-> found]

NoResult == Res("none", "", "", <<>>, <<>>)

InitTool ==
    /\ src = [p \in Paths |-> [mem |-> NoFile, hist |-> NoFile]]
    /\ dirs = [d \in Dirs |-> NoDir]
    /\ call = NoCall
    /\ result = NoResult
    /\ distilled = <<>>
    /\ pre = [d \in Dirs |-> NoDir]
    /\ made = [d \in Dirs |-> <<>>]

InitSyncVars ==
    /\ dbUp = TRUE
    /\ memoryData = {}
    /\ sellers = {}
    /\ syncLog = <<>>
    /\ dbCalls = <<>>

NoPatterns == [concepts |-> <<>>, methodologies |-> <<>>, learnings |-> <<>>]

\* the 8 signal names, in declaration order
SignalOrder ==
    <<"comparison", "risk_awareness", "implementation_focus", "why_questions",
      "meta_thinking", "uncertainty", "optimization", "exploration">>

SignalNames == { SignalOrder[i] : i \in 1..Len(SignalOrder) }

\* every key present, initialized to 0
ZeroVector == [n \in SignalNames |-> 0]

\* no TraitProfile yet
NoTraits ==
    [decision_style |-> "", execution_mode |-> "", risk_profile |-> "",
     abstraction_level |-> "", learning_style |-> ""]

IdleExtract ==
    /\ xIn = <<>>
    /\ xOut = NoPatterns
    /\ xDone = FALSE

IdleScore ==
    /\ sents = <<>>
    /\ sIdx = 0
    /\ signals = ZeroVector
    /\ sigPrev = ZeroVector
    /\ traits = NoTraits

IdlePipe ==
    /\ pRaw = <<>>
    /\ pTrace = <<>>
    /\ pRedacted = <<>>
    /\ pPatterns = NoPatterns
    /\ pText = <<>>
    /\ pFile = <<>>

IdleRace ==
    /\ rcText = <<>>
    /\ rcPc = <<>>
    /\ rcFile = <<>>
    /\ rcTrace = <<>>

IdleStore ==
    /\ stBackend = "sqlite"
    /\ stRows = <<>>
    /\ stReq = <<>>
    /\ stStarted = 0

IdlePersona ==
    /\ pnFiles = <<>>
    /\ pnRows = <<>>
    /\ pnReturned = <<>>
    /\ pnLast = [code |-> 0, persona_id |-> ""]
    /\ pnCount = 0

IdlePull ==
    /\ plFiles = <<>>
    /\ plDirs = {}
    /\ plBuyers = {}
    /\ plLatest = <<>>

IdleBack == IdlePipe /\ IdleRace /\ IdleStore /\ IdlePersona /\ IdlePull

IdleStages == IdleExtract /\ IdleScore /\ IdleBack

IdleRedact ==
    /\ rIn = <<>>
    /\ rCur = <<>>
    /\ rPrev = <<>>
    /\ rIdx = 0
    /\ rPass = 1
    /\ rOut1 = <<>>

(***************************************************************************)
(* The environment: files appear and disappear in p1, processes restart.   *)
(***************************************************************************)
PutMemory(text) ==
    /\ src["p1"].mem # FileOf(text)
    /\ src' = [src EXCEPT !["p1"].mem = FileOf(text)]
    /\ UNCHANGED <<dirs, hashSeed, call, result, distilled, pre, made>>
    /\ UNCHANGED syncVars
    /\ UNCHANGED redactVars
    /\ UNCHANGED stageVars

PutHistory(text) ==
    /\ src["p1"].hist # FileOf(text)
    /\ src' = [src EXCEPT !["p1"].hist = FileOf(text)]
    /\ UNCHANGED <<dirs, hashSeed, call, result, distilled, pre, made>>
    /\ UNCHANGED syncVars
    /\ UNCHANGED redactVars
    /\ UNCHANGED stageVars

RemoveMemory ==
    /\ src["p1"].mem.exists
    /\ src' = [src EXCEPT !["p1"].mem = NoFile]
    /\ UNCHANGED <<dirs, hashSeed, call, result, distilled, pre, made>>
    /\ UNCHANGED syncVars
    /\ UNCHANGED redactVars
    /\ UNCHANGED stageVars

RemoveHistory ==
    /\ src["p1"].hist.exists
    /\ src' = [src EXCEPT !["p1"].hist = NoFile]
    /\ UNCHANGED <<dirs, hashSeed, call, result, distilled, pre, made>>
    /\ UNCHANGED syncVars
    /\ UNCHANGED redactVars
    /\ UNCHANGED stageVars

\* the tool runs in a new interpreter process, with another hash seed
Restart ==
    /\ \E seed \in Seeds \ {hashSeed} : hashSeed' = seed
    /\ UNCHANGED <<src, dirs, call, result, distilled, pre, made>>
    /\ UNCHANGED syncVars
    /\ UNCHANGED redactVars
    /\ UNCHANGED stageVars

(***************************************************************************)
(* execute, _distill, _list_patterns.                                      *)
(***************************************************************************)
Actions == {"distill", "list", "other"}

\* what the file system can answer a call with: no fault, a failing
\* read_text, an exception inside _distill_content, a failing mkdir,
\* write_text failing before or after the file was truncated, a failing
\* directory scan; a call that finds no source
\* document does no input or output that could fail
FaultsOf(action, path) ==
    IF action = "distill"
    THEN IF src[path].mem.exists \/ src[path].hist.exists
         THEN {"none", "read", "content", "mkdir", "write_open",
               "write_trunc"}
         ELSE {"none"}
    ELSE IF action = "list" THEN {"none", "read", "scan"}
    ELSE {"none"}

\* the values of the argument output_dir: absent, or the location d2
\* (only _distill reads the argument)
OutputDirs(action) == IF action = "distill" THEN {"none", "d2"} ELSE {"none"}

\* the combined texts the source location can give
AllContents ==
    { Combined(m, h) : m \in MemDocs \cup {<<>>}, h \in HistDocs \cup {<<>>} }

\* _distill_content and _count_redactions, tabulated over the possible texts
DistillMemo ==
    [c \in AllContents |-> [seed \in Seeds |-> DistillContent(c, seed)]]

CountMemo == [c \in AllContents |-> CountRedactions(c)]

\* the output location removed and created again, empty
MkdirFresh(ds, out) == [ds EXCEPT ![out] = [NoDir EXCEPT !.exists = TRUE]]

\* output_path.mkdir(parents=True, exist_ok=True)
Mkdir(ds, out) == [ds EXCEPT ![out].exists = TRUE]

\* the file opened in append mode instead
WriteTextAppend(ds, out, text) ==
    [ds EXCEPT ![out].names = @ \cup {"cognition.md"}, ![out].cog = @ \o text]

\* a second file written next to cognition.md
WriteTextAndJson(ds, out, text) ==
    [ds EXCEPT ![out].names = @ \cup {"cognition.md", "cognition.json"},
               ![out].cog = text]

\* a log file opened next to cognition.md as soon as the write starts
WriteTextAndLog(ds, out, text) ==
    [ds EXCEPT ![out].names = @ \cup {"cognition.md", "distill.log"},
               ![out].cog = text]

\* cognition_file.write_text(text): the file is opened for writing, which
\* truncates it, and the text is written
WriteText(ds, out, text) ==
    [ds EXCEPT ![out].names = @ \cup {"cognition.md"}, ![out].cog = text]

\* the existence check left out
MissingIgnored(memory, history) == FALSE

\* if not memory_file.exists() and not history_file.exists()
InputMissing(memory, history) == ~memory.exists /\ ~history.exists

AllStages == {"read", "content", "mkdir", "open", "write"}

\* every statement runs although one of them raised
StagesRunDespiteFault(fault) == AllStages

\* the file is opened for writing before its content is computed
StagesRunOpenFirst(fault) ==
    IF fault = "read" THEN {}
    ELSE IF fault = "content" THEN {"read", "mkdir", "open"}
    ELSE IF fault = "mkdir" THEN {"read", "content"}
    ELSE IF fault = "write_open" THEN {"read", "content", "mkdir"}
    ELSE IF fault = "write_trunc" THEN {"read", "content", "mkdir", "open"}
    ELSE AllStages

\* the statements of _distill that completed before the one that raised:
\* the reads, _distill_content, mkdir, the opening (and truncation) of
\* cognition.md, the writing of the text
StagesRun(fault) ==
    IF fault = "read" THEN {}
    ELSE IF fault = "content" THEN {"read"}
    ELSE IF fault = "mkdir" THEN {"read", "content"}
    ELSE IF fault = "write_open" THEN {"read", "content", "mkdir"}
    ELSE IF fault = "write_trunc" THEN {"read", "content", "mkdir", "open"}
    ELSE AllStages

\* _distill: the value returned (kind "raised": an exception left it), the
\* file system after it, the local distilled, and made
Distill(path, output_dir, fault) ==
    LET out      == IF output_dir = "none" THEN DefaultOut(path) ELSE output_dir
        memory   == src[path].mem
        history  == src[path].hist
        combined == Combined(memory.data, history.data)
        text     == DistillMemo[combined][hashSeed]
        raised   == Res("raised", path, out, <<>>, <<>>)
        done     == StagesRun(fault)
        made_dir == IF "mkdir" \in done THEN Mkdir(dirs, out) ELSE dirs
        opened   == IF "open" \in done THEN WriteText(made_dir, out, <<>>)
                    ELSE made_dir
        written  == IF "write" \in done THEN WriteText(opened, out, text)
                    ELSE opened
    IN  IF InputMissing(memory, history)
        THEN [res |-> Res("no_files", path, "", <<>>, <<>>), dirs |-> dirs,
              distilled |-> <<>>, made |-> made]
        ELSE [res  |-> IF fault = "none"
                       THEN Res("distilled", path, out, CountMemo[combined],
                                <<>>)
                       ELSE raised,
              dirs |-> written,
              distilled |-> IF "content" \in done THEN text ELSE <<>>,
              made |-> IF "write" \in done
                       THEN [made EXCEPT ![out] = combined]
                       ELSE IF "open" \in done
                       THEN [made EXCEPT ![out] = <<>>]
                       ELSE made]

\* _list_patterns: a cognition file that cannot be read is skipped
ListPatterns(path, fault) ==
    LET d     == DefaultOut(path)
        found == IF /\ dirs[d].exists
                    /\ "cognition.md" \in dirs[d].names
                    /\ fault # "read"
                 THEN << [dir |-> d, lines |-> Len(dirs[d].cog)] >>
                 ELSE <<>>
    IN  IF fault = "scan"
        THEN Res("raised", path, "", <<>>, <<>>)
        ELSE IF found = <<>>
        THEN Res("no_patterns", path, "", <<>>, <<>>)
        ELSE Res("listing", path, "", <<>>, found)

\* propagate the exception to the caller
Uncaught(res) == res

\* except Exception as e: return f"Error: {str(e)}"
Caught(res) ==
    IF res.kind = "raised" THEN [res EXCEPT !.kind = "exception"] ELSE res

\* execute
Execute(action, path, output_dir, fault) ==
    LET o == IF action = "distill" THEN Distill(path, output_dir, fault)
             ELSE IF action = "list"
             THEN [res |-> ListPatterns(path, fault), dirs |-> dirs,
                   distilled |-> <<>>, made |-> made]
             ELSE [res |-> Res("unknown_action", "", "", <<>>, <<>>),
                   dirs |-> dirs, distilled |-> <<>>, made |-> made]
    IN  /\ result' = Caught(o.res)
        /\ dirs' = o.dirs
        /\ distilled' = o.distilled
        /\ made' = o.made
        /\ pre' = dirs
        /\ call' = [action  |-> action, path |-> path,
                    out     |-> IF output_dir = "none" THEN DefaultOut(path)
                                ELSE output_dir,
                    fault   |-> fault,
                    hadMem  |-> src[path].mem.exists,
                    hadHist |-> src[path].hist.exists]
        /\ UNCHANGED <<src, hashSeed>>
        /\ UNCHANGED syncVars
    /\ UNCHANGED redactVars
    /\ UNCHANGED stageVars

Init ==
    InitTool /\ hashSeed \in Seeds /\ InitSyncVars /\ IdleRedact /\ IdleStages

Next ==
    \/ \E text \in MemDocs : PutMemory(text)
    \/ \E text \in HistDocs : PutHistory(text)
    \/ RemoveMemory
    \/ RemoveHistory
    \/ Restart
    \/ \E action \in Actions, path \in Paths :
         \E output_dir \in OutputDirs(action), fault \in FaultsOf(action, path) :
            Execute(action, path, output_dir, fault)

Spec == Init /\ [][Next]_vars

(***************************************************************************)
(* mindprint_cli.py: sync_cognition pushes the .md files of the            *)
(* .mindprint directories of the workspace to the table memory_data.       *)
(***************************************************************************)
\* the uid the command runs with
SellerUid == "seller1"

\* an operation on the database: psycopg2.connect, cursor.execute
DbCall(op, file) == [op |-> op, file |-> file]

\* logger.error(...) / logger.info(...)
Log(level, event, file) == [level |-> level, event |-> event, file |-> file]

\* hashlib.md5(content.encode()).hexdigest(): a digest of the text, here the
\* input-derived part of each line
Md5(content) == [i \in 1..Len(content) |-> content[i].body]

\* the .mindprint directories found by rglob that hold cognition.md
SyncableDirs(ds) ==
    { d \in Dirs : ds[d].exists /\ "cognition.md" \in ds[d].names }

\* INSERT ... ON CONFLICT (file_path, file_hash) DO UPDATE SET content = ...
Upsert(rows, row) ==
    { r \in rows : ~(r.file_path = row.file_path /\ r.file_hash = row.file_hash) }
    \cup { row }

RowOf(d, ds) ==
    [file_path |-> d, file_hash |-> Md5(ds[d].cog), content |-> ds[d].cog,
     user_id |-> SellerUid]

\* the exception of one file ends the command: nothing is logged for it
FileFailureUncaught(d) == <<>>

\* except Exception as e: logger.error(f"Failed to sync {md_file}: {e}")
FileFailureLogged(d) == << Log("error", "Failed to sync", d) >>

RECURSIVE SyncFiles(_, _, _, _)
\* the loop over the md files, in the order todo: the rows and the log
\* records after it; the files in failing raise in read_text or in execute
SyncFiles(todo, failing, rows, ds) ==
    IF todo = <<>>
    THEN [rows |-> rows, log |-> <<>>, synced |-> 0, calls |-> <<>>]
    ELSE LET d    == Head(todo)
             rest == SyncFiles(Tail(todo), failing,
                               IF d \in failing THEN rows
                               ELSE Upsert(rows, RowOf(d, ds)), ds)
         IN  IF d \in failing
             THEN [rest EXCEPT !.log = FileFailureLogged(d) \o @]
             ELSE [rest EXCEPT !.log = << Log("info", "synced", d) >> \o @,
                               !.synced = @ + 1,
                               !.calls = << DbCall("upsert", d) >> \o @]

\* the directories in the order rglob yields them
ScanOrder(ds) ==
    SelectSeq(<<"d1", "d2">>, LAMBDA d : d \in SyncableDirs(ds))

\* register_seller: the rows of sellers, the record logged and the
\* operations completed (it opens a connection of its own)
RegisterSeller(rows, sellerFails) ==
    IF sellerFails
    THEN [rows  |-> rows,
          log   |-> << Log("error", "Failed to register seller telemetry", "") >>,
          calls |-> << DbCall("connect", "") >>]
    ELSE [rows  |-> rows \cup {SellerUid},
          log   |-> << Log("info", "Seller telemetry registered", "") >>,
          calls |-> << DbCall("connect", ""), DbCall("insert_seller", "") >>]

\* the failed connection swallowed without a record
GetDbConnectionSilent(up) == [conn |-> up, log |-> <<>>]

\* get_db_connection: whether a connection came back, and what was logged
GetDbConnection(up) ==
    [conn |-> up,
     log  |-> IF up THEN <<>>
              ELSE << Log("error", "Database connection error", "") >>]

\* what sync_cognition does to the database and to its log; failing: the
\* files whose read or upsert raises; sellerFails: the insert into sellers
\* raises
SyncEffect(failing, sellerFails) ==
    /\ LET c == GetDbConnection(dbUp)
       IN  IF ~c.conn
           THEN /\ syncLog' = c.log
                /\ dbCalls' = <<>>
                /\ UNCHANGED <<memoryData, sellers>>
           ELSE LET o == SyncFiles(ScanOrder(dirs), failing, memoryData, dirs)
                    r == RegisterSeller(sellers, sellerFails)
                IN  /\ sellers' = r.rows
                    /\ memoryData' = o.rows
                    /\ syncLog' = c.log \o r.log \o o.log
                                   \o << Log("info", "Sync complete", "") >>
                    /\ dbCalls' = << DbCall("connect", "") >> \o r.calls
                                   \o o.calls
    /\ UNCHANGED dbUp
    /\ UNCHANGED toolVars
    /\ UNCHANGED redactVars

\* sync_cognition
SyncCognition(failing, sellerFails) ==
    /\ SyncEffect(failing, sellerFails)
    /\ UNCHANGED stageVars

\* the database stops or starts accepting connections
GatewayDown ==
    /\ dbUp
    /\ dbUp' = FALSE
    /\ UNCHANGED <<memoryData, sellers, syncLog, dbCalls>>
    /\ UNCHANGED toolVars
    /\ UNCHANGED redactVars
    /\ UNCHANGED stageVars

GatewayUp ==
    /\ ~dbUp
    /\ dbUp' = TRUE
    /\ UNCHANGED <<memoryData, sellers, syncLog, dbCalls>>
    /\ UNCHANGED toolVars
    /\ UNCHANGED redactVars
    /\ UNCHANGED stageVars

\* a workspace whose source location p1 holds MEMORY.md
InitSync ==
    /\ src = [p \in Paths |->
                [mem  |-> IF p = "p1" THEN FileOf(DocB) ELSE NoFile,
                 hist |-> NoFile]]
    /\ dirs = [d \in Dirs |-> NoDir]
    /\ hashSeed = 0
    /\ call = NoCall
    /\ result = NoResult
    /\ distilled = <<>>
    /\ pre = [d \in Dirs |-> NoDir]
    /\ made = [d \in Dirs |-> <<>>]
    /\ InitSyncVars
    /\ IdleRedact
    /\ IdleStages

NextSync ==
    \/ \E output_dir \in OutputDirs("distill"), fault \in {"none", "write_trunc"} :
         Execute("distill", "p1", output_dir, fault)
    \/ \E failing \in SUBSET Dirs, sellerFails \in BOOLEAN :
         SyncCognition(failing, sellerFails)
    \/ GatewayDown
    \/ GatewayUp

SpecSync == InitSync /\ [][NextSync]_vars

(***************************************************************************)
(* The redactor as a state machine over bounded inputs: a text is a        *)
(* concatenation of at most MaxChunks chunks.                              *)
(***************************************************************************)
MaxChunks == 3

RedactChunks ==
    { <<"a","@","b",".","c","o","m">>,
      <<"h","t","t","p",":","/","/","x",".","c","o","m">>,
      <<" ">>,
      <<"/">>,
      <<"5","5","5","1","2","3","4","5","6","7">>,
      <<"w","w","w",".","x">>,
      <<"J","o","h","n"," ","S","m","i","t","h">>,
      <<"A","c","m","e"," ","I","n","c">>,
      <<"1",".","2",".","3",".","4">>,
      <<"t","o","k","e","n","=","x">>,
      <<"_">> }

RECURSIVE TextsOf(_)
TextsOf(n) ==
    IF n = 0 THEN { <<>> }
    ELSE LET shorter == TextsOf(n - 1)
         IN  shorter \cup { t \o c : t \in shorter, c \in RedactChunks }

InitRedact ==
    /\ InitTool
    /\ hashSeed = 0
    /\ InitSyncVars
    /\ IdleStages
    /\ rIn \in TextsOf(MaxChunks)
    /\ rCur = rIn
    /\ rPrev = rIn
    /\ rIdx = 0
    /\ rPass = 1
    /\ rOut1 = <<>>

\* one iteration of the for loop of _redact_pii
RedactStep ==
    /\ rPass = 1
    /\ rIdx < NumRules
    /\ rPrev' = rCur
    /\ rCur' = ApplyRule(rIdx + 1, rCur)
    /\ rIdx' = rIdx + 1
    /\ rOut1' = IF rIdx + 1 = NumRules THEN rCur' ELSE rOut1
    /\ UNCHANGED <<rIn, rPass>>
    /\ UNCHANGED toolVars
    /\ UNCHANGED syncVars
    /\ UNCHANGED stageVars

\* _redact_pii applied to the text it returned
RedactAgain ==
    /\ rPass = 1
    /\ rIdx = NumRules
    /\ rPass' = 2
    /\ rPrev' = rCur
    /\ rCur' = RedactPii(rCur)
    /\ UNCHANGED <<rIn, rIdx, rOut1>>
    /\ UNCHANGED toolVars
    /\ UNCHANGED syncVars
    /\ UNCHANGED stageVars

NextRedact == RedactStep \/ RedactAgain

SpecRedact == InitRedact /\ [][NextRedact]_vars

(***************************************************************************)
(* _extract_patterns as a state machine over bounded inputs.               *)
(***************************************************************************)
MaxLines == 3

\* the lines the input texts are made of
ExtractLines ==
    { <<"s","y","s","t","e","m"," ","d","e","s","i","g","n"," ","o","k">>,
      <<"s","y","s","t","e","m"," ","d","e","s","i","g","n"," ","k">>,
      <<"#"," ","o","u","r"," ","d","e","s","i","g","n"," ","p","a","t","t","e","r","n"," ","l","i","s","t">>,
      <<" "," ","l","e","a","r","n","e","d"," ","t","h","e"," ","w","o","r","k","f","l","o","w","."," ","o","k"," "," ">>,
      <<"p","l","a","i","n"," ","w","o","r","d","s"," ","w","i","t","h","o","u","t"," ","a","n","y"," ","k","e","y">>,
      <<>>,
      <<"t","h","e"," ","a","p","p","r","o","a","c","h"," ","t","o"," ","t","h","e"," ","w","h","o","l","e"," ","p","i","p","e","l","i","n","e">> }

RECURSIVE TextsOfLines(_)
\* the texts of at most n lines, joined by newlines
TextsOfLines(n) ==
    IF n = 0 THEN { <<>> }
    ELSE LET shorter == TextsOfLines(n - 1)
         IN  shorter \cup ExtractLines
                     \cup { t \o <<"\n">> \o l : t \in shorter, l \in ExtractLines }

InitExtract ==
    /\ InitTool
    /\ hashSeed = 0
    /\ InitSyncVars
    /\ IdleRedact
    /\ xIn \in TextsOfLines(MaxLines)
    /\ xOut = NoPatterns
    /\ xDone = FALSE
    /\ IdleScore
    /\ IdleBack

\* _extract_patterns(xIn)
ExtractStep ==
    /\ ~xDone
    /\ xOut' = ExtractPatterns(xIn)
    /\ xDone' = TRUE
    /\ UNCHANGED xIn
    /\ UNCHANGED scoreVars
    /\ UNCHANGED backVars
    /\ UNCHANGED toolVars
    /\ UNCHANGED syncVars
    /\ UNCHANGED redactVars

NextExtract == ExtractStep

SpecExtract == InitExtract /\ [][NextExtract]_vars

(***************************************************************************)
(* The signal scorer: a SentenceSet is scored into a SignalVector, one     *)
(* sentence at a time.  The per-signal keyword sets are configuration; the *)
(* tables below are small stand-ins with one or two keywords per signal.   *)
(***************************************************************************)
\* the keyword set of each signal category
SignalKeywords ==
    [ comparison |-> << <<"c","o","m","p","a","r","e">>, <<"v","s">> >>,
      risk_awareness |-> << <<"r","i","s","k">> >>,
      implementation_focus |-> << <<"b","u","i","l","d">> >>,
      why_questions |-> << <<"r","e","a","s","o","n">> >>,
      meta_thinking |-> << <<"s","y","s","t","e","m">>, <<"a","r","c","h","i","t","e","c","t","u","r","e">> >>,
      uncertainty |-> << <<"m","a","y","b","e">> >>,
      optimization |-> << <<"o","p","t","i","m","i","z","e">> >>,
      exploration |-> << <<"e","x","p","l","o","r","e">> >> ]

\* the token "why"
WhyToken == <<"w","h","y">>

\* the substring " why "
WhyInside == <<" ","w","h","y"," ">>

\* the lowercased sentence begins with the token "why" or contains " why "
WhyRule(lowered) ==
    \/ /\ OccursAt(WhyToken, lowered, 1)
       /\ (Len(lowered) = Len(WhyToken) \/ lowered[Len(WhyToken) + 1] \notin WordChar)
    \/ Contains(WhyInside, lowered)

\* the sentence raises the counter of this category: some keyword of the
\* category is present in the lowercased sentence, or the why rule applies
Raises(name, sentence) ==
    LET lowered == ToLower(sentence)
    IN  \/ AnyKeyword(SignalKeywords[name], lowered)
        \/ (name = "why_questions" /\ WhyRule(lowered))

\* how often the keywords of this category occur in the sentence
Occurrences(name, sentence) ==
    LET lowered == ToLower(sentence)
        RECURSIVE Sum(_)
        Sum(k) == IF k = 0 THEN 0
                  ELSE CountOcc(SignalKeywords[name][k], lowered) + Sum(k - 1)
    IN  Sum(Len(SignalKeywords[name]))
        + (IF name = "why_questions" /\ WhyRule(lowered) THEN 1 ELSE 0)

\* scoring by the number of keyword occurrences
ScoreSentenceByCount(vector, sentence) ==
    [n \in SignalNames |-> vector[n] + Occurrences(n, sentence)]

\* scoring that keeps the last sentence's hits only
ScoreSentenceLast(vector, sentence) ==
    [n \in SignalNames |-> IF Raises(n, sentence) THEN 1 ELSE 0]

\* scoring that stops at the first category the sentence raises
ScoreSentenceFirstHit(vector, sentence) ==
    LET hits == { i \in 1..Len(SignalOrder) : Raises(SignalOrder[i], sentence) }
    IN  [n \in SignalNames |->
            IF hits # {} /\ n = SignalOrder[CHOOSE i \in hits : \A j \in hits : i <= j]
            THEN vector[n] + 1 ELSE vector[n]]

\* one sentence evaluated against every category: each counter is raised by
\* 1 when the sentence raises its category, and kept otherwise
ScoreSentence(vector, sentence) ==
    [n \in SignalNames |->
        IF Raises(n, sentence) THEN vector[n] + 1 ELSE vector[n]]

MaxSentences == 3

\* the sentences the SentenceSets are made of
ScoreSentencePool ==
    { <<"W","h","y"," ","d","o"," ","w","e"," ","a","l","w","a","y","s"," ","c","o","m","p","a","r","e"," ","p","e","r","f","o","r","m","a","n","c","e"," ","v","s"," ","t","h","e"," ","o","l","d"," ","s","y","s","t","e","m"," ","a","r","c","h","i","t","e","c","t","u","r","e"," ","d","e","s","i","g","n">>,
      <<"w","e"," ","c","o","m","p","a","r","e"," ","a","n","d"," ","c","o","m","p","a","r","e"," ","i","t"," ","v","s"," ","t","h","e"," ","r","e","s","t">>,
      <<"W","h","y"," ","c","o","m","p","a","r","e"," ","t","h","e"," ","s","y","s","t","e","m"," ","w","h","e","n"," ","t","h","e"," ","r","i","s","k"," ","i","s"," ","h","i","g","h">>,
      <<"M","a","y","b","e"," ","w","e"," ","e","x","p","l","o","r","e"," ","f","i","r","s","t"," ","a","n","d"," ","b","u","i","l","d"," ","a","f","t","e","r">>,
      <<"n","o","t","h","i","n","g"," ","o","f"," ","i","n","t","e","r","e","s","t"," ","i","n"," ","t","h","i","s"," ","o","n","e">>,
      <<"w","e"," ","a","s","k"," ","w","h","y"," ","i","t"," ","s","h","o","u","l","d"," ","o","p","t","i","m","i","z","e"," ","f","o","r"," ","a"," ","r","e","a","s","o","n">> }

RECURSIVE SentenceSets(_)
\* the SentenceSets of at most n sentences
SentenceSets(n) ==
    IF n = 0 THEN { <<>> }
    ELSE LET shorter == SentenceSets(n - 1)
         IN  shorter \cup { Append(t, s) : t \in shorter, s \in ScoreSentencePool }

InitScore ==
    /\ InitTool
    /\ hashSeed = 0
    /\ InitSyncVars
    /\ IdleRedact
    /\ IdleBack
    /\ IdleExtract
    /\ sents \in SentenceSets(MaxSentences)
    /\ sIdx = 0
    /\ signals = ZeroVector
    /\ sigPrev = ZeroVector
    /\ traits = NoTraits

\* the scorer processes the next sentence of the SentenceSet
ScoreStep ==
    /\ sIdx < Len(sents)
    /\ sIdx' = sIdx + 1
    /\ sigPrev' = signals
    /\ signals' = ScoreSentence(signals, sents[sIdx + 1])
    /\ UNCHANGED <<sents, traits>>
    /\ UNCHANGED extractVars
    /\ UNCHANGED backVars
    /\ UNCHANGED toolVars
    /\ UNCHANGED syncVars
    /\ UNCHANGED redactVars

NextScore == ScoreStep

SpecScore == InitScore /\ [][NextScore]_vars

(***************************************************************************)
(* The trait mapper: a SignalVector is mapped to a TraitProfile by five    *)
(* independent threshold rules.                                            *)
(***************************************************************************)
\* the uncertainty branch tried before the comparison branch
DecisionStyleUncertaintyFirst(vector) ==
    IF vector["uncertainty"] > 5 THEN "Validation-seeking"
    ELSE IF vector["comparison"] > 5 THEN "Analytical and comparison-driven"
    ELSE "Balanced"

DecisionStyle(vector) ==
    IF vector["comparison"] > 5 THEN "Analytical and comparison-driven"
    ELSE IF vector["uncertainty"] > 5 THEN "Validation-seeking"
    ELSE "Balanced"

\* equal counters taken as execution-oriented
ExecutionModeInclusive(vector) ==
    IF vector["implementation_focus"] >= vector["exploration"]
    THEN "Execution-oriented"
    ELSE "Exploratory"

ExecutionMode(vector) ==
    IF vector["implementation_focus"] > vector["exploration"]
    THEN "Execution-oriented"
    ELSE "Exploratory"

RiskProfile(vector) ==
    IF vector["risk_awareness"] > 3 THEN "Risk-aware" ELSE "Moderate"

AbstractionLevel(vector) ==
    IF vector["meta_thinking"] > 3
    THEN "High-level systems thinker"
    ELSE "Concrete or tactical thinker"

LearningStyle(vector) ==
    IF vector["why_questions"] > 3
    THEN "Conceptual (why-driven)"
    ELSE "Practical (how-driven)"

\* SignalVector -> TraitProfile
MapTraits(vector) ==
    [decision_style |-> DecisionStyle(vector),
     execution_mode |-> ExecutionMode(vector),
     risk_profile |-> RiskProfile(vector),
     abstraction_level |-> AbstractionLevel(vector),
     learning_style |-> LearningStyle(vector)]

\* the SignalVectors given to the trait mapper: values on both sides of
\* each threshold
TraitVectors ==
    { [comparison |-> c, risk_awareness |-> r, implementation_focus |-> i,
       why_questions |-> w, meta_thinking |-> m, uncertainty |-> u,
       optimization |-> 0, exploration |-> e] :
          c \in {0, 5, 6, 10}, u \in {0, 5, 6, 10},
          i \in {0, 1, 2}, e \in {0, 1, 2},
          r \in {0, 3, 4}, m \in {0, 3, 4}, w \in {0, 3, 4} }

InitTraits ==
    /\ InitTool
    /\ hashSeed = 0
    /\ InitSyncVars
    /\ IdleRedact
    /\ IdleBack
    /\ IdleExtract
    /\ sents = <<>>
    /\ sIdx = 0
    /\ signals \in TraitVectors
    /\ sigPrev = signals
    /\ traits = NoTraits

\* the trait mapper maps the completed SignalVector
MapStep ==
    /\ traits = NoTraits
    /\ sIdx = Len(sents)
    /\ traits' = MapTraits(signals)
    /\ UNCHANGED <<sents, sIdx, signals, sigPrev>>
    /\ UNCHANGED extractVars
    /\ UNCHANGED backVars
    /\ UNCHANGED toolVars
    /\ UNCHANGED syncVars
    /\ UNCHANGED redactVars

NextTraits == MapStep

SpecTraits == InitTraits /\ [][NextTraits]_vars

(***************************************************************************)
(* One invocation of _distill_content and of the write that follows it,    *)
(* stage by stage.                                                         *)
(***************************************************************************)
MaxPipeLines == 2

\* the lines the raw texts are made of
PipeLines ==
    { <<"s","y","s","t","e","m"," ","d","e","s","i","g","n"," ","b","y"," ","a","@","b",".","c","o","m"," ","o","k">>,
      <<"o","u","r"," ","w","o","r","k","f","l","o","w"," ","a","t"," ","h","t","t","p",":","/","/","x",".","c","o","m">>,
      <<"l","e","a","r","n","e","d"," ","t","h","e"," ","p","i","p","e","l","i","n","e"," ","m","e","t","h","o","d">>,
      <<"c","a","l","l"," ","5","5","5","1","2","3","4","5","6","7"," ","f","o","r"," ","a"," ","c","h","a","t">>,
      <<"w","r","i","t","e"," ","t","o"," ","d","e","s","i","g","n","@","b",".","c","o","m"," ","t","o","d","a","y">> }

RECURSIVE PipeTexts(_)
\* the raw texts of at most n lines
PipeTexts(n) ==
    IF n = 0 THEN { <<>> }
    ELSE LET shorter == PipeTexts(n - 1)
         IN  shorter \cup PipeLines
                     \cup { t \o <<"\n">> \o l : t \in shorter, l \in PipeLines }

\* the order of the stages of one invocation
StageOrder == <<"redact", "extract", "format", "write">>

\* the extractor is given the raw text
ExtractInputRaw(content, redacted) == content

\* the argument of _extract_patterns in _distill_content
ExtractInput(content, redacted) == redacted

InitPipe ==
    /\ InitTool
    /\ hashSeed \in Seeds
    /\ InitSyncVars
    /\ IdleRedact
    /\ IdleExtract
    /\ IdleScore
    /\ IdleRace
    /\ IdleStore
    /\ IdlePersona
    /\ IdlePull
    /\ pRaw \in PipeTexts(MaxPipeLines)
    /\ pTrace = <<>>
    /\ pRedacted = <<>>
    /\ pPatterns = NoPatterns
    /\ pText = <<>>
    /\ pFile = <<>>

\* what the steps of the pipeline leave alone
PipeFrame ==
    /\ UNCHANGED <<xIn, xOut, xDone, sents, sIdx, signals, sigPrev, traits>>
    /\ UNCHANGED <<raceVars, storeVars, personaVars, pullVars>>
    /\ UNCHANGED toolVars
    /\ UNCHANGED syncVars
    /\ UNCHANGED redactVars

\* redacted = self._redact_pii(content)
PipeRedact ==
    /\ pTrace = <<>>
    /\ pRedacted' = RedactPii(pRaw)
    /\ pTrace' = Append(pTrace, "redact")
    /\ UNCHANGED <<pRaw, pPatterns, pText, pFile>>
    /\ PipeFrame

\* patterns = self._extract_patterns(redacted)
PipeExtract ==
    /\ pTrace = <<"redact">>
    /\ pPatterns' = ExtractPatterns(ExtractInput(pRaw, pRedacted))
    /\ pTrace' = Append(pTrace, "extract")
    /\ UNCHANGED <<pRaw, pRedacted, pText, pFile>>
    /\ PipeFrame

\* formatted = self._format_cognition(patterns)
PipeFormat ==
    /\ pTrace = <<"redact", "extract">>
    /\ pText' = FormatCognition(pPatterns, hashSeed)
    /\ pTrace' = Append(pTrace, "format")
    /\ UNCHANGED <<pRaw, pRedacted, pPatterns, pFile>>
    /\ PipeFrame

\* cognition_file.write_text(distilled)
PipeWrite ==
    /\ pTrace = <<"redact", "extract", "format">>
    /\ pFile' = pText
    /\ pTrace' = Append(pTrace, "write")
    /\ UNCHANGED <<pRaw, pRedacted, pPatterns, pText>>
    /\ PipeFrame

NextPipe == PipeRedact \/ PipeExtract \/ PipeFormat \/ PipeWrite

SpecPipe == InitPipe /\ [][NextPipe]_vars

(***************************************************************************)
(* Two invocations of _distill that write the same cognition.md at the     *)
(* same time (two processes).  write_text opens the file for writing,      *)
(* which truncates it, and writes its text from offset 0 of its own file   *)
(* descriptor.                                                             *)
(***************************************************************************)
Invocations == {1, 2}

\* the combined texts the two invocations distil
RaceDocs ==
    { <<"p","l","a","i","n"," ","w","o","r","d","s"," ","w","i","t","h","o","u","t"," ","a","n","y"," ","k","e","y">>,
      <<"s","y","s","t","e","m"," ","d","e","s","i","g","n"," ","b","y"," ","a","@","b",".","c","o","m"," ","o","k">>,
      <<"s","y","s","t","e","m"," ","d","e","s","i","g","n"," ","b","y"," ","a","@","b",".","c","o","m"," ","o","k","\n","l","e","a","r","n","e","d"," ","t","h","e"," ","p","i","p","e","l","i","n","e"," ","m","e","t","h","o","d">> }

\* open(file, 'w')
OpenTruncate(file) == <<>>

\* a write that replaces the whole file in one step
WriteWhole(file, text) == text

\* f.write(data) on a descriptor at offset 0: what the file holds beyond
\* the written text stays
WriteAtStart(file, text) == text \o SubSeq(file, Len(text) + 1, Len(file))

\* a file operation of an invocation
FileOp(i, op) == [inv |-> i, op |-> op]

InitRace ==
    /\ InitTool
    /\ hashSeed = 0
    /\ InitSyncVars
    /\ IdleRedact
    /\ IdleExtract
    /\ IdleScore
    /\ IdlePipe
    /\ IdleStore
    /\ IdlePersona
    /\ IdlePull
    /\ rcText \in [Invocations -> { DistillContent(d, s) : d \in RaceDocs, s \in Seeds }]
    /\ rcPc = [i \in Invocations |-> "start"]
    /\ rcFile = <<>>
    /\ rcTrace = <<>>

\* what the steps of the two invocations leave alone
RaceFrame ==
    /\ UNCHANGED <<xIn, xOut, xDone, sents, sIdx, signals, sigPrev, traits>>
    /\ UNCHANGED <<pipeVars, storeVars, personaVars, pullVars>>
    /\ UNCHANGED toolVars
    /\ UNCHANGED syncVars
    /\ UNCHANGED redactVars

\* invocation i opens cognition.md for writing
RaceOpen(i) ==
    /\ rcPc[i] = "start"
    /\ rcPc' = [rcPc EXCEPT ![i] = "opened"]
    /\ rcFile' = OpenTruncate(rcFile)
    /\ rcTrace' = Append(rcTrace, FileOp(i, "open"))
    /\ UNCHANGED rcText
    /\ RaceFrame

\* invocation i writes its text and closes the file
RaceWrite(i) ==
    /\ rcPc[i] = "opened"
    /\ rcPc' = [rcPc EXCEPT ![i] = "written"]
    /\ rcFile' = WriteAtStart(rcFile, rcText[i])
    /\ rcTrace' = Append(rcTrace, FileOp(i, "write"))
    /\ UNCHANGED rcText
    /\ RaceFrame

NextRace == \E i \in Invocations : RaceOpen(i) \/ RaceWrite(i)

SpecRace == InitRace /\ [][NextRace]_vars

(***************************************************************************)
(* POST /api/memory: store_memory of api.py (sqlite3) and of               *)
(* api_postgres.py (SQLAlchemy session), with up to two requests running   *)
(* at the same time, each in a transaction of its own.                     *)
(***************************************************************************)
MaxStoreRequests == 3

\* memory_item.get('file_hash') of an item without the key: None
NoHash == "None"

Item(file_path, content, file_hash) ==
    [file_path |-> file_path, content |-> content, file_hash |-> file_hash]

\* the bodies of the requests
StoreBatches ==
    { << Item("f", "c1", "h") >>,
      << Item("f", "c2", "h"), Item("g", "c3", "k") >>,
      << Item("f", "c1", NoHash) >>,
      << Item("", "c1", "h"), Item("g", "c4", "k") >> }

StoreSlots == {1, 2}

IdleRequest ==
    [status |-> "idle", batch |-> <<>>, idx |-> 0, existing |-> "unknown",
     pend |-> <<>>, stored |-> 0, updated |-> 0]

\* WHERE file_path = ? AND file_hash = ?: a comparison with NULL is never
\* true, so a row or an item without a hash matches nothing
SameKey(row, item) ==
    /\ row.file_path = item.file_path
    /\ row.file_hash = item.file_hash
    /\ item.file_hash # NoHash

RECURSIVE ApplyWrites(_, _)
\* the rows after the INSERT and UPDATE statements of a transaction
ApplyWrites(rows, pend) ==
    IF pend = <<>> THEN rows
    ELSE LET w == Head(pend)
         IN  ApplyWrites(
                 IF w.op = "insert" THEN Append(rows, w.item)
                 ELSE [i \in 1..Len(rows) |->
                          IF SameKey(rows[i], w.item)
                          THEN [rows[i] EXCEPT !.content = w.item.content]
                          ELSE rows[i]],
                 Tail(pend))

\* what the SELECT of a request sees: the committed rows and its own writes
VisibleRows(r) == ApplyWrites(stRows, stReq[r].pend)

\* cursor.fetchone() / .first() is not None
Existing(r, item) ==
    \E i \in 1..Len(VisibleRows(r)) : SameKey(VisibleRows(r)[i], item)

\* the write waits for the transaction of the other request: sqlite has one
\* writer at a time, PostgreSQL waits for an uncommitted row with the key
WriteBlocked(r, item) ==
    \E o \in StoreSlots \ {r} :
        /\ stReq[o].status = "running"
        /\ IF stBackend = "sqlite" THEN stReq[o].pend # <<>>
           ELSE \E i \in 1..Len(stReq[o].pend) :
                    SameKey(stReq[o].pend[i].item, item)

\* the INSERT raises: UNIQUE(file_path, file_hash) against a committed row,
\* or file_hash NOT NULL (api_postgres.py only)
InsertRaises(item) ==
    \/ \E i \in 1..Len(stRows) : SameKey(stRows[i], item)
    \/ stBackend = "postgres" /\ item.file_hash = NoHash

InitStore ==
    /\ InitTool
    /\ hashSeed = 0
    /\ InitSyncVars
    /\ IdleRedact
    /\ IdleExtract
    /\ IdleScore
    /\ IdlePipe
    /\ IdleRace
    /\ IdlePersona
    /\ IdlePull
    /\ stBackend \in {"sqlite", "postgres"}
    /\ stRows = <<>>
    /\ stReq = [r \in StoreSlots |-> IdleRequest]
    /\ stStarted = 0

\* what the steps of store_memory leave alone
StoreFrame ==
    /\ UNCHANGED stBackend
    /\ UNCHANGED <<xIn, xOut, xDone, sents, sIdx, signals, sigPrev, traits>>
    /\ UNCHANGED <<pipeVars, raceVars, personaVars, pullVars>>
    /\ UNCHANGED toolVars
    /\ UNCHANGED syncVars
    /\ UNCHANGED redactVars

\* a request with a memory_data field arrives
StoreBegin(r, batch) ==
    /\ stReq[r].status # "running"
    /\ stStarted < MaxStoreRequests
    /\ stStarted' = stStarted + 1
    /\ stReq' = [stReq EXCEPT ![r] = [IdleRequest EXCEPT !.status = "running",
                                                          !.batch = batch,
                                                          !.idx = 1]]
    /\ UNCHANGED stRows
    /\ StoreFrame

\* the top of the loop body: the item is skipped, or looked up
StoreCheck(r) ==
    LET q    == stReq[r]
        item == q.batch[q.idx]
    IN  /\ q.status = "running"
        /\ q.idx <= Len(q.batch)
        /\ q.existing = "unknown"
        /\ stReq' = [stReq EXCEPT ![r] =
              IF item.file_path = "" \/ item.content = ""
              THEN [q EXCEPT !.idx = q.idx + 1]
              ELSE [q EXCEPT !.existing =
                       IF Existing(r, item) THEN "yes" ELSE "no"]]
        /\ UNCHANGED <<stRows, stStarted>>
        /\ StoreFrame

\* the UPDATE or the INSERT of the item; an exception ends the request with
\* status 500 and its transaction is rolled back
StoreWrite(r) ==
    LET q    == stReq[r]
        item == q.batch[q.idx]
    IN  /\ q.status = "running"
        /\ q.existing # "unknown"
        /\ ~WriteBlocked(r, item)
        /\ stReq' = [stReq EXCEPT ![r] =
              IF q.existing = "yes"
              THEN [q EXCEPT !.pend = Append(q.pend, [op |-> "update", item |-> item]),
                             !.updated = q.updated + 1,
                             !.idx = q.idx + 1,
                             !.existing = "unknown"]
              ELSE IF InsertRaises(item)
              THEN [q EXCEPT !.status = "error", !.pend = <<>>]
              ELSE [q EXCEPT !.pend = Append(q.pend, [op |-> "insert", item |-> item]),
                             !.stored = q.stored + 1,
                             !.idx = q.idx + 1,
                             !.existing = "unknown"]]
        /\ UNCHANGED <<stRows, stStarted>>
        /\ StoreFrame

\* conn.commit() / session.commit() and the success response
StoreCommit(r) ==
    LET q == stReq[r]
    IN  /\ q.status = "running"
        /\ q.idx > Len(q.batch)
        /\ stRows' = ApplyWrites(stRows, q.pend)
        /\ stReq' = [stReq EXCEPT ![r] = [q EXCEPT !.status = "ok", !.pend = <<>>]]
        /\ UNCHANGED stStarted
        /\ StoreFrame

NextStore ==
    \E r \in StoreSlots :
        \/ \E batch \in StoreBatches : StoreBegin(r, batch)
        \/ StoreCheck(r)
        \/ StoreWrite(r)
        \/ StoreCommit(r)

SpecStore == InitStore /\ [][NextStore]_vars

(***************************************************************************)
(* main.py: POST /personas/upload and GET /personas/{persona_id}.          *)
(***************************************************************************)
MaxUploads == 3

\* the values uuid.uuid4().hex[:6] can take: 24 bits, so a later upload can
\* draw an id that is already stored
PersonaIds == {"a7f21c", "03bd9e"}

\* auth_key and twin_content of the requests
AuthKeys == {"", "key"}

TwinContents == {"", "twin one", "twin two"}

\* what can go wrong in the two try blocks of upload_persona
UploadFaults == {"none", "open", "write", "db"}

\* os.path.join(DATA_DIR, f"{persona_id}.md")
FilePathOf(persona_id) == <<"data", persona_id>>

\* a function with one more pair
Put(f, k, v) == [x \in DOMAIN f \cup {k} |-> IF x = k THEN v ELSE f[x]]

\* get_persona
GetPersona(persona_id) ==
    IF persona_id \notin DOMAIN pnRows
    THEN [code |-> 404, content |-> "Persona not found"]
    ELSE IF pnRows[persona_id] \notin DOMAIN pnFiles
    THEN [code |-> 404, content |-> "Persona file missing on disk"]
    ELSE [code |-> 200, content |-> pnFiles[pnRows[persona_id]]]

InitPersona ==
    /\ InitTool
    /\ hashSeed = 0
    /\ InitSyncVars
    /\ IdleRedact
    /\ IdleExtract
    /\ IdleScore
    /\ IdlePipe
    /\ IdleRace
    /\ IdleStore
    /\ IdlePull
    /\ pnFiles = <<>>
    /\ pnRows = <<>>
    /\ pnReturned = <<>>
    /\ pnLast = [code |-> 0, persona_id |-> ""]
    /\ pnCount = 0

\* upload_persona; persona_id: the id drawn; fault: the statement that raises
UploadPersona(auth_key, twin_content, persona_id, fault) ==
    /\ pnCount < MaxUploads
    /\ pnCount' = pnCount + 1
    /\ IF auth_key = "" \/ twin_content = ""
       THEN /\ pnLast' = [code |-> 400, persona_id |-> ""]
            /\ UNCHANGED <<pnFiles, pnRows, pnReturned>>
       ELSE IF fault = "open"
       THEN /\ pnLast' = [code |-> 500, persona_id |-> ""]
            /\ UNCHANGED <<pnFiles, pnRows, pnReturned>>
       ELSE IF fault = "write"
       THEN /\ pnFiles' = Put(pnFiles, FilePathOf(persona_id), "")
            /\ pnLast' = [code |-> 500, persona_id |-> ""]
            /\ UNCHANGED <<pnRows, pnReturned>>
       ELSE IF fault = "db" \/ persona_id \in DOMAIN pnRows
       THEN /\ pnFiles' = Put(pnFiles, FilePathOf(persona_id), twin_content)
            /\ pnLast' = [code |-> 500, persona_id |-> ""]
            /\ UNCHANGED <<pnRows, pnReturned>>
       ELSE /\ pnFiles' = Put(pnFiles, FilePathOf(persona_id), twin_content)
            /\ pnRows' = Put(pnRows, persona_id, FilePathOf(persona_id))
            /\ pnReturned' = Put(pnReturned, persona_id, twin_content)
            /\ pnLast' = [code |-> 200, persona_id |-> persona_id]
    /\ UNCHANGED <<xIn, xOut, xDone, sents, sIdx, signals, sigPrev, traits>>
    /\ UNCHANGED <<pipeVars, raceVars, storeVars, pullVars>>
    /\ UNCHANGED toolVars
    /\ UNCHANGED syncVars
    /\ UNCHANGED redactVars

NextPersona ==
    \E auth_key \in AuthKeys, twin_content \in TwinContents,
       persona_id \in PersonaIds, fault \in UploadFaults :
        UploadPersona(auth_key, twin_content, persona_id, fault)

SpecPersona == InitPersona /\ [][NextPersona]_vars

(***************************************************************************)
(* mindprint_cli.py pull: pull_persona_by_token, next to the commands and  *)
(* requests that fill memory_data: sync_cognition of the seller and        *)
(* POST /api/memory of api_postgres.py.                                    *)
(***************************************************************************)
\* the rows of the table rentals: token -> seller_user_id
Rentals == [tok1 |-> SellerUid]

\* the tokens given to pull
Tokens == {"tok1", "expired"}

BuyerUid == "buyer1"

\* the versions of cognition.md the seller produces
SellerTexts == { DistillContent(d, 0) : d \in RaceDocs }

\* (file_path, user_id) of the items posted to /api/memory
PostedAssets ==
    { <<"../other", SellerUid>>, <<"/abs", SellerUid>>, <<"d2", "seller2">> }

\* the content of the items posted to /api/memory
PostedContent == DistillContent(<<>>, 0)

\* the components of a file_path: a relative path with a parent step, an
\* absolute path, or the cognition.md of a .mindprint directory
PathParts(file_path) ==
    IF file_path = "../other" THEN <<"..", "other">>
    ELSE IF file_path = "/abs" THEN <<"/", "abs">>
    ELSE <<file_path, ".mindprint", "cognition.md">>

\* Path(workspace_root) / "personas" / seller_uid
PersonaBaseDir(seller_uid) == <<"/", "ws", "personas", seller_uid>>

RECURSIVE Walk(_, _)
\* the location reached from at by the components parts
Walk(at, parts) ==
    IF parts = <<>> THEN at
    ELSE IF Head(parts) = "/" THEN Walk(<<"/">>, Tail(parts))
    ELSE IF Head(parts) = ".."
         THEN Walk(IF Len(at) > 1 THEN SubSeq(at, 1, Len(at) - 1) ELSE at,
                   Tail(parts))
    ELSE Walk(Append(at, Head(parts)), Tail(parts))

\* persona_base_dir / asset['file_path'], as the file system resolves it
TargetFile(base, file_path) == Walk(base, PathParts(file_path))

\* the sequences that hold each element of the set once
Orders(rows) ==
    { o \in [1..Cardinality(rows) -> rows] :
          \A i, j \in 1..Cardinality(rows) : o[i] = o[j] => i = j }

RECURSIVE WriteAssets(_, _, _)
\* the loop over assets: write_text for each row, in the order fetched
WriteAssets(files, base, assets) ==
    IF assets = <<>> THEN files
    ELSE WriteAssets(Put(files, TargetFile(base, Head(assets).file_path),
                         Head(assets).content),
                     base, Tail(assets))

InitPull ==
    /\ InitSync
    /\ plFiles = <<>>
    /\ plDirs = {}
    /\ plBuyers = {}
    /\ plLatest = <<>>

\* what the steps around pull leave alone
PullFrame ==
    /\ UNCHANGED <<xIn, xOut, xDone, sents, sIdx, signals, sigPrev, traits>>
    /\ UNCHANGED <<pipeVars, raceVars, storeVars, personaVars>>
    /\ UNCHANGED redactVars

\* the seller distils again: the cognition.md of d1 has a new content
SellerDistills(text) ==
    /\ dirs' = [dirs EXCEPT !["d1"] =
                   [exists |-> TRUE, names |-> {"cognition.md"}, cog |-> text]]
    /\ UNCHANGED <<src, hashSeed, call, result, distilled, pre, made>>
    /\ UNCHANGED syncVars
    /\ UNCHANGED pullVars
    /\ PullFrame

\* the seller runs sync
SellerSyncs ==
    /\ SyncEffect({}, FALSE)
    /\ plLatest' = IF dbUp
                   THEN [d \in DOMAIN plLatest \cup SyncableDirs(dirs) |->
                            IF d \in SyncableDirs(dirs) THEN dirs[d].cog
                            ELSE plLatest[d]]
                   ELSE plLatest
    /\ UNCHANGED <<plFiles, plDirs, plBuyers>>
    /\ PullFrame

\* POST /api/memory with one item that carries a user_id
PostAsset(file_path, user_id) ==
    /\ dbUp
    /\ memoryData' = Upsert(memoryData,
                            [file_path |-> file_path,
                             file_hash |-> Md5(PostedContent),
                             content |-> PostedContent,
                             user_id |-> user_id])
    /\ UNCHANGED <<dbUp, sellers, syncLog, dbCalls>>
    /\ UNCHANGED toolVars
    /\ UNCHANGED pullVars
    /\ PullFrame

\* pull_persona_by_token; order: the order in which the SELECT without
\* ORDER BY hands over the rows of the seller
PullPersona(token, order) ==
    LET assets == { r \in memoryData :
                      token \in DOMAIN Rentals /\ r.user_id = Rentals[token] }
        base   == PersonaBaseDir(Rentals[token])
    IN  /\ order \in Orders(assets)
        /\ IF ~dbUp
           THEN UNCHANGED <<plFiles, plDirs, plBuyers>>
           ELSE /\ plBuyers' = plBuyers \cup {BuyerUid}
                /\ IF token \notin DOMAIN Rentals \/ assets = {}
                   THEN UNCHANGED <<plFiles, plDirs>>
                   ELSE /\ plFiles' = WriteAssets(plFiles, base, order)
                        /\ plDirs' = plDirs \cup {base}
                              \cup { LET t == TargetFile(base, order[i].file_path)
                                     IN  SubSeq(t, 1, Len(t) - 1) :
                                         i \in 1..Len(order) }
        /\ UNCHANGED plLatest
        /\ UNCHANGED syncVars
        /\ UNCHANGED toolVars
        /\ PullFrame

NextPull ==
    \/ \E text \in SellerTexts : SellerDistills(text)
    \/ SellerSyncs
    \/ \E a \in PostedAssets : PostAsset(a[1], a[2])
    \/ \E token \in Tokens :
          \E order \in Orders({ r \in memoryData :
                                  token \in DOMAIN Rentals
                                  /\ r.user_id = Rentals[token] }) :
              PullPersona(token, order)
    \/ GatewayDown
    \/ GatewayUp

SpecPull == InitPull /\ [][NextPull]_vars

(***************************************************************************)
(* _format_cognition on bounded pattern lists, as _extract_patterns can    *)
(* return them: trimmed lines longer than 15 characters with a keyword.    *)
(***************************************************************************)
ConceptItems ==
    << <<"s","y","s","t","e","m"," ","p","a","t","t","e","r","n"," ","n","u","m","b","e","r"," ","0","1">>,
       <<"s","y","s","t","e","m"," ","p","a","t","t","e","r","n"," ","n","u","m","b","e","r"," ","0","2">>,
       <<"s","y","s","t","e","m"," ","p","a","t","t","e","r","n"," ","n","u","m","b","e","r"," ","0","3">>,
       <<"-"," ","s","y","s","t","e","m"," ","p","a","t","t","e","r","n"," ","n","u","m","b","e","r"," ","0","1">>,
       <<"*"," ","s","y","s","t","e","m"," ","p","a","t","t","e","r","n"," ","n","u","m","b","e","r"," ","0","2">>,
       <<"s","y","s","t","e","m"," ","p","a","t","t","e","r","n"," ","n","u","m","b","e","r"," ","0","4">>,
       <<"s","y","s","t","e","m"," ","p","a","t","t","e","r","n"," ","n","u","m","b","e","r"," ","0","5">>,
       <<"s","y","s","t","e","m"," ","p","a","t","t","e","r","n"," ","n","u","m","b","e","r"," ","0","6">>,
       <<"s","y","s","t","e","m"," ","p","a","t","t","e","r","n"," ","n","u","m","b","e","r"," ","0","7">>,
       <<"s","y","s","t","e","m"," ","p","a","t","t","e","r","n"," ","n","u","m","b","e","r"," ","0","8">>,
       <<"s","y","s","t","e","m"," ","p","a","t","t","e","r","n"," ","n","u","m","b","e","r"," ","0","9">>,
       <<"s","y","s","t","e","m"," ","p","a","t","t","e","r","n"," ","n","u","m","b","e","r"," ","1","0">>,
       <<"s","y","s","t","e","m"," ","p","a","t","t","e","r","n"," ","n","u","m","b","e","r"," ","1","1">>,
       <<"s","y","s","t","e","m"," ","p","a","t","t","e","r","n"," ","n","u","m","b","e","r"," ","1","2">> >>

MethodItems ==
    << <<"w","o","r","k","f","l","o","w"," ","m","e","t","h","o","d"," ","n","u","m","b","e","r"," ","0","1">>,
       <<"w","o","r","k","f","l","o","w"," ","m","e","t","h","o","d"," ","n","u","m","b","e","r"," ","0","2">> >>

LearningItems ==
    << <<"l","e","a","r","n","e","d"," ","i","n","s","i","g","h","t"," ","n","u","m","b","e","r"," ","0","1">>,
       <<"l","e","a","r","n","e","d"," ","i","n","s","i","g","h","t"," ","n","u","m","b","e","r"," ","0","2">>,
       <<"l","e","a","r","n","e","d"," ","i","n","s","i","g","h","t"," ","n","u","m","b","e","r"," ","0","3">>,
       <<"l","e","a","r","n","e","d"," ","i","n","s","i","g","h","t"," ","n","u","m","b","e","r"," ","0","4">>,
       <<"l","e","a","r","n","e","d"," ","i","n","s","i","g","h","t"," ","n","u","m","b","e","r"," ","0","5">>,
       <<"l","e","a","r","n","e","d"," ","i","n","s","i","g","h","t"," ","n","u","m","b","e","r"," ","0","6">> >>

\* the patterns given to _format_cognition
FormatInputs ==
    [concepts      : { <<>>, Take(ConceptItems, 1), Take(ConceptItems, 4),
                       Take(ConceptItems, 13), ConceptItems },
     methodologies : { <<>>, MethodItems, MethodItems \o MethodItems },
     learnings     : { <<>>, Take(LearningItems, 5), LearningItems }]

InitFormat ==
    /\ InitTool
    /\ hashSeed \in Seeds
    /\ InitSyncVars
    /\ IdleRedact
    /\ IdleExtract
    /\ IdleScore
    /\ IdleRace
    /\ IdleStore
    /\ IdlePersona
    /\ IdlePull
    /\ pRaw = <<>>
    /\ pTrace = <<"redact", "extract">>
    /\ pRedacted = <<>>
    /\ pPatterns \in FormatInputs
    /\ pText = <<>>
    /\ pFile = <<>>

NextFormat == PipeFormat

SpecFormat == InitFormat /\ [][NextFormat]_vars

(***************************************************************************)
(* Text helpers used to state the properties.                              *)
(***************************************************************************)
\* the maximal runs of non-whitespace characters of s
Words(s) ==
    { SubSeq(s, i, j) : <<i, j>> \in
        { ij \in (1..Len(s)) \X (1..Len(s)) :
            /\ ij[1] <= ij[2]
            /\ \A k \in ij[1]..ij[2] : s[k] \notin Space
            /\ (ij[1] = 1 \/ s[ij[1] - 1] \in Space)
            /\ (ij[2] = Len(s) \/ s[ij[2] + 1] \in Space) } }

\* the pattern matches the whole of w
FullMatch(pat, w) == w # <<>> /\ MatchEnd(pat, w, 1) = Len(w) + 1

EmailTag == <<"[","E","M","A","I","L","]">>

PhoneTag == <<"[","P","H","O","N","E","]">>

UrlTag == <<"[","U","R","L","]">>

IpTag == <<"[","I","P","_","A","D","D","R","E","S","S","]">>

ApiKeyTag == <<"[","A","P","I","_","K","E","Y","]">>

\* the placeholder of each rule, in the declared order of the rules
DeclaredTags == <<EmailTag, PhoneTag, UrlTag, IpTag, ApiKeyTag>>

EmailStr == <<"a","@","b",".","c","o","m">>

UrlStr == <<"h","t","t","p",":","/","/","x",".","c","o","m">>

\* the first call of the redactor has returned
Redacted == rPass = 1 /\ rIdx = NumRules

(***************************************************************************)
(* C4 (as claimed): redact(redact(x)) = redact(x) for every input x.       *)
(***************************************************************************)
C4_Idempotent == rPass = 2 => rCur = rOut1

(***************************************************************************)
(* C5: the k-th loop iteration applies the k-th declared rule to the whole *)
(* current text: every match is replaced by the bracketed upper-case rule  *)
(* name (the count of that placeholder grows by the number of matches,     *)
(* and the text shrinks by the matched characters), and right after the    *)
(* iteration no substring of the text matches that rule's pattern.         *)
(***************************************************************************)
C5_RuleApplied ==
    (rPass = 1 /\ rIdx >= 1) =>
        LET pat == PII_PATTERNS[rIdx].pattern
            tag == DeclaredTags[rIdx]
            n   == ReCount(pat, rPrev)
        IN  /\ ~ReSearch(pat, rCur)
            /\ CountOcc(tag, rCur) = CountOcc(tag, rPrev) + n
            /\ (n = 0 => rCur = rPrev)
            /\ (n > 0 => rCur # rPrev)

\* C5 witness: an iteration that replaced two matches of its rule
C5_Witness ==
    /\ rPass = 1 /\ rIdx >= 1
    /\ ReCount(PII_PATTERNS[rIdx].pattern, rPrev) >= 2
    /\ CountOcc(DeclaredTags[rIdx], rCur) >= 2

(***************************************************************************)
(* C6 (as claimed): after redaction no occurrence of any of the seven      *)
(* classes is left in the text: email, phone, URL, IP address, credential, *)
(* full name (two capitalized words), company name with a suffix.          *)
(***************************************************************************)
\* \b[A-Z][a-z]+\s+[A-Z][a-z]+\b, case-sensitive
FullNameShape ==
    << Bnd, One(Upper), RepUnb(Lower, 1), RepUnb(Space, 1),
       One(Upper), RepUnb(Lower, 1), Bnd >>

\* \b[A-Z][A-Za-z]*\s+(?:Inc|LLC|Ltd|Corp)\b, case-sensitive
CompanyShape ==
    << Bnd, One(Upper), RepUnb(Letter, 0), RepUnb(Space, 1),
       Alt(<< << One({"I"}), One({"n"}), One({"c"}) >>,
              << One({"L"}), One({"L"}), One({"C"}) >>,
              << One({"L"}), One({"t"}), One({"d"}) >>,
              << One({"C"}), One({"o"}), One({"r"}), One({"p"}) >> >>),
       Bnd >>

SevenClasses ==
    << EmailPattern, PhonePattern, UrlPattern, IpPattern, ApiKeyPattern,
       FullNameShape, CompanyShape >>

C6_SevenClassesRedacted ==
    Redacted => \A c \in 1..Len(SevenClasses) : ~ReSearch(SevenClasses[c], rCur)

HttpUrlShape ==
    Lit(<<"h","t","t","p">>) \o << Opt({"s", "S"}) >>
        \o Lit(<<":","/","/">>) \o << NegPlus(Space \cup {")"}) >>

\* an http:// or https:// URL standing as a word of its own
IsHttpUrlWord(w) == FullMatch(HttpUrlShape, w)

C1_MissingInput ==
    (call.action = "distill" /\ ~call.hadMem /\ ~call.hadHist) =>
        /\ result.kind = "no_files"
        /\ result.path = call.path
        /\ dirs = pre

\* C1 witness: the call failed that way and its output location is absent
C1_Witness ==
    /\ call.action = "distill" /\ ~call.hadMem /\ ~call.hadHist
    /\ result.kind = "no_files" /\ result.path = call.path
    /\ ~dirs[call.out].exists

(***************************************************************************)
(* C2: whatever the action and whatever the file system answers, execute   *)
(* ends by returning one of its status strings; no exception leaves it.    *)
(***************************************************************************)
StatusKinds ==
    {"distilled", "no_files", "exception", "unknown_action", "listing",
     "no_patterns"}

C2_AlwaysStatus == call.action # "none" => result.kind \in StatusKinds

\* C2 witness: a write that failed inside distill came back as a status
C2_Witness ==
    /\ call.action = "distill" /\ call.fault = "write_trunc"
    /\ result.kind = "exception"

(***************************************************************************)
(* C8 (as claimed): two invocations given the same memory and history text *)
(* produce identical artifact content, whatever process runs them.         *)
(***************************************************************************)
C8_Reproducible ==
    \A d \in Dirs, e \in Dirs :
        (made[d] # <<>> /\ made[d] = made[e]) => dirs[d].cog = dirs[e].cog

RenderedLineKinds == {"fixed", "bullet"}

C10_LatestArtifact ==
    result.kind = "distilled" =>
        /\ dirs[call.out].exists
        /\ "cognition.md" \in dirs[call.out].names
        /\ dirs[call.out].cog = distilled
        /\ \A d \in Dirs \ {call.out} : dirs[d] = pre[d]

\* C10 witness: the invocation replaced a different earlier artifact
C10_Witness ==
    /\ result.kind = "distilled"
    /\ "cognition.md" \in pre[call.out].names
    /\ pre[call.out].cog # <<>>
    /\ pre[call.out].cog # distilled
    /\ dirs[call.out].cog = distilled

(***************************************************************************)
(* C3: a failing sync (no connection, or an exception while a row is       *)
(* pushed) leaves the local artifacts and the result of the distillation   *)
(* as they were and logs the failure; and a distillation whose inputs      *)
(* exist and whose file operations succeed reports success whatever the    *)
(* state of the database.                                                  *)
(***************************************************************************)
HasError(log) == \E i \in 1..Len(log) : log[i].level = "error"

\* a run of sync_cognition in which the connection or some push failed
FailingSync ==
    \E failing \in SUBSET Dirs, sellerFails \in BOOLEAN :
        /\ SyncCognition(failing, sellerFails)
        /\ \/ ~dbUp
           \/ sellerFails
           \/ failing \cap SyncableDirs(dirs) # {}

C3_SyncFailureHarmless ==
    /\ [][FailingSync =>
            /\ dirs' = dirs
            /\ result' = result
            /\ HasError(syncLog')]_vars
    /\ []((call.action = "distill" /\ (call.hadMem \/ call.hadHist)
            /\ call.fault = "none")
            => result.kind = "distilled")

\* C3 witness: the sync failed after a successful distillation, whose
\* artifact and result are still in place
C3_Witness ==
    /\ HasError(syncLog)
    /\ result.kind = "distilled"
    /\ dirs[call.out].cog = distilled
    /\ distilled # <<>>

(***************************************************************************)
(* C11: the sync opens its connection before any other database operation; *)
(* when the connection fails it logs one failure line and performs no      *)
(* operation of that run: no seller registration and no push of a file.    *)
(***************************************************************************)
\* a run of sync_cognition
SyncRun ==
    \E failing \in SUBSET Dirs, sellerFails \in BOOLEAN :
        SyncCognition(failing, sellerFails)

C11_ConnectionTestFirst ==
    /\ [][(SyncRun /\ ~dbUp) =>
            /\ Len(syncLog') = 1
            /\ syncLog'[1].level = "error"
            /\ dbCalls' = <<>>
            /\ memoryData' = memoryData
            /\ sellers' = sellers]_vars
    /\ [](dbCalls # <<>> => dbCalls[1].op = "connect")

\* C11 witness: rows were pushed by an earlier run, and the last run found
\* no connection and stopped there
C11_Witness ==
    /\ ~dbUp
    /\ memoryData # {}
    /\ dbCalls = <<>>
    /\ Len(syncLog) = 1 /\ syncLog[1].level = "error"
    /\ SyncableDirs(dirs) # {}

(***************************************************************************)
(* C12: an invocation of distill whose artifact write did not complete     *)
(* appends no provenance line (it leaves no file but cognition.md in any   *)
(* output location) and makes no sync call (the rows of the database, the  *)
(* operations on it and the sync log are as before).                       *)
(***************************************************************************)
\* an invocation of distill
DistillRun ==
    \E path \in Paths, output_dir \in OutputDirs("distill") :
        \E fault \in FaultsOf("distill", path) :
            Execute("distill", path, output_dir, fault)

IOFaults == {"read", "mkdir", "write_open", "write_trunc"}

C14_IOFailureAborts ==
    (call.action = "distill" /\ call.fault \in IOFaults) =>
        /\ result.kind = "exception"
        /\ (call.fault \in {"read", "mkdir"} => dirs = pre)
        /\ (call.fault = "write_open" =>
                dirs = [pre EXCEPT ![call.out].exists = TRUE])
        /\ (call.fault = "write_trunc" =>
                dirs = [pre EXCEPT ![call.out] =
                          [exists |-> TRUE,
                           names  |-> pre[call.out].names \cup {"cognition.md"},
                           cog    |-> <<>>]])

\* C14 witness: the file could not be opened; the directory that mkdir had
\* just created is still there, without any file
C14_Witness ==
    /\ call.action = "distill" /\ call.fault = "write_open"
    /\ result.kind = "exception"
    /\ ~pre[call.out].exists
    /\ dirs[call.out].exists /\ dirs[call.out].names = {}

(***************************************************************************)
(* C15: when a statement before the first write raises (a read,            *)
(* _distill_content, mkdir), the invocation writes no file: the output     *)
(* location has the files it had, and an artifact written there earlier    *)
(* has its content unchanged.                                              *)
(***************************************************************************)
C15_NoWriteWhenContentFails ==
    (call.action = "distill" /\ call.fault \in {"read", "content", "mkdir"}) =>
        /\ result.kind # "distilled"
        /\ dirs[call.out].names = pre[call.out].names
        /\ dirs[call.out].cog = pre[call.out].cog

\* C15 witness: _distill_content raised on a location that held an artifact
C15_Witness ==
    /\ call.action = "distill" /\ call.fault = "content"
    /\ "cognition.md" \in pre[call.out].names
    /\ pre[call.out].cog # <<>>
    /\ dirs[call.out].cog = pre[call.out].cog

(***************************************************************************)
(* C16 (as claimed): the extractor returns the segments between runs of    *)
(* the delimiters . ! ? and newline, trimmed, whose length is above 20.    *)
(***************************************************************************)
SentenceDelimiters == {".", "!", "?", "\n"}

\* the trimmed maximal delimiter-free segments of s that are longer than 20
SentencesAsClaimed(s) ==
    { seg \in
        { Strip(SubSeq(s, ij[1], ij[2])) : ij \in
            { ij \in (1..Len(s)) \X (1..Len(s)) :
                /\ ij[1] <= ij[2]
                /\ \A k \in ij[1]..ij[2] : s[k] \notin SentenceDelimiters
                /\ (ij[1] = 1 \/ s[ij[1] - 1] \in SentenceDelimiters)
                /\ (ij[2] = Len(s) \/ s[ij[2] + 1] \in SentenceDelimiters) } } :
        Len(seg) > 20 }

\* the items the extractor returned, of any category
AllExtracted(out) ==
    { out.concepts[i] : i \in 1..Len(out.concepts) }
    \cup { out.methodologies[i] : i \in 1..Len(out.methodologies) }
    \cup { out.learnings[i] : i \in 1..Len(out.learnings) }

KeptIndices(s, keywords) ==
    { k \in 1..Len(SplitLines(s)) :
        LET l == Strip(SplitLines(s)[k])
        IN  /\ l # <<>>
            /\ l[1] # "#"
            /\ Len(l) > 15
            /\ \E w \in 1..Len(keywords) : Contains(keywords[w], ToLower(l)) }

\* items is the trimmed lines of s at the indices kept, in increasing order
IsKeptInOrder(items, s, keywords) ==
    LET kept == KeptIndices(s, keywords)
    IN  /\ Len(items) = Cardinality(kept)
        /\ \A i \in 1..Len(items) :
              \E k \in kept :
                  /\ Cardinality({ j \in kept : j <= k }) = i
                  /\ items[i] = Strip(SplitLines(s)[k])

SentencesWith(name) == { i \in 1..sIdx : Raises(name, sents[i]) }

C17_PresenceNotCount ==
    \A n \in SignalNames :
        /\ signals[n] - sigPrev[n] \in {0, 1}
        /\ signals[n] = Cardinality(SentencesWith(n))

\* scoring is done, the last sentence holds two comparison keywords and
\* raised comparison by 1 and two more counters with it, and one of the
\* three sentences raised no comparison
C17_Witness ==
    /\ Len(sents) = MaxSentences
    /\ sIdx = Len(sents)
    /\ Occurrences("comparison", sents[sIdx]) > 1
    /\ signals["comparison"] = sigPrev["comparison"] + 1
    /\ Cardinality({ n \in SignalNames : signals[n] > sigPrev[n] }) > 2
    /\ signals["comparison"] < Len(sents)

(***************************************************************************)
(* C18.  In every state of the scoring stage the SignalVector holds all 8  *)
(* signal names, every value is a non-negative integer that starts at 0,   *)
(* and no value decreases when a further sentence is processed.            *)
(***************************************************************************)
C18_AllKeysNonDecreasing ==
    /\ DOMAIN signals = SignalNames
    /\ Cardinality(DOMAIN signals) = 8
    /\ \A n \in DOMAIN signals :
          /\ signals[n] \in Nat
          /\ sIdx = 0 => signals[n] = 0
          /\ signals[n] >= sigPrev[n]

\* all sentences are processed, and the last one has left alone a counter
\* that earlier sentences had raised, while another counter is still 0
C18_Witness ==
    /\ Len(sents) = MaxSentences
    /\ sIdx = Len(sents)
    /\ \E n \in SignalNames :
          /\ signals[n] > 1
          /\ ~Raises(n, sents[sIdx])
    /\ \E n \in SignalNames : signals[n] = 0

(***************************************************************************)
(* C19.  A sentence that begins with the token "why" (or contains " why ") *)
(* and contains a comparison keyword and a meta-thinking keyword raises    *)
(* comparison, why_questions and meta_thinking by exactly 1 each and       *)
(* leaves the other five counters unchanged.                               *)
(***************************************************************************)
\* the three counters of the scenario
WhyComparisonMeta == {"comparison", "why_questions", "meta_thinking"}

\* the sentence processed last is a why sentence with a comparison keyword
\* and a meta-thinking keyword
LastIsWhyComparisonMeta ==
    /\ sIdx > 0
    /\ WhyRule(ToLower(sents[sIdx]))
    /\ AnyKeyword(SignalKeywords["comparison"], ToLower(sents[sIdx]))
    /\ AnyKeyword(SignalKeywords["meta_thinking"], ToLower(sents[sIdx]))

\* as claimed: the other five counters are unchanged whatever else the
\* sentence contains
C19_OtherFiveUnchanged ==
    LastIsWhyComparisonMeta =>
        /\ \A n \in WhyComparisonMeta : signals[n] = sigPrev[n] + 1
        /\ \A n \in SignalNames \ WhyComparisonMeta : signals[n] = sigPrev[n]

\* such a sentence raises the three counters by exactly 1 each and leaves
\* unchanged each of the other five whose category has no keyword in it; a
\* counter whose category has a keyword in the sentence is raised by 1 too
C19_OthersUnchangedWithoutKeyword ==
    LastIsWhyComparisonMeta =>
        /\ \A n \in WhyComparisonMeta : signals[n] = sigPrev[n] + 1
        /\ \A n \in SignalNames \ WhyComparisonMeta :
              signals[n] = sigPrev[n]
                  + (IF AnyKeyword(SignalKeywords[n], ToLower(sents[sIdx])) THEN 1 ELSE 0)

\* a why sentence with a comparison and a meta-thinking keyword was processed
\* after others: it raised exactly the three counters although another
\* counter was already positive
C19_Witness ==
    /\ LastIsWhyComparisonMeta
    /\ sIdx = MaxSentences
    /\ { n \in SignalNames : signals[n] > sigPrev[n] } = WhyComparisonMeta
    /\ \E n \in SignalNames \ WhyComparisonMeta : sigPrev[n] > 0

(***************************************************************************)
(* C20.  decision_style is decided top to bottom, first match wins, with   *)
(* strict comparisons: comparison above 5 gives "Analytical and            *)
(* comparison-driven" whatever uncertainty is; otherwise uncertainty above *)
(* 5 gives "Validation-seeking"; otherwise "Balanced"; the value 5 passes  *)
(* neither threshold.                                                      *)
(***************************************************************************)
C20_DecisionStyle ==
    traits # NoTraits =>
        /\ signals["comparison"] >= 6
              => traits.decision_style = "Analytical and comparison-driven"
        /\ signals["comparison"] <= 5 /\ signals["uncertainty"] >= 6
              => traits.decision_style = "Validation-seeking"
        /\ signals["comparison"] <= 5 /\ signals["uncertainty"] <= 5
              => traits.decision_style = "Balanced"

\* the vector of Scenario D has been mapped
C20_Witness ==
    /\ signals["comparison"] = 6
    /\ signals["uncertainty"] = 10
    /\ traits.decision_style = "Analytical and comparison-driven"

(***************************************************************************)
(* C21.  For the all-zero SignalVector the TraitProfile has exactly the    *)
(* five trait names and every trait takes its else label; in particular    *)
(* implementation_focus equal to exploration gives "Exploratory".          *)
(***************************************************************************)
C21_AllZeroDefaults ==
    (traits # NoTraits /\ signals = ZeroVector) =>
        /\ DOMAIN traits = {"decision_style", "execution_mode", "risk_profile",
                            "abstraction_level", "learning_style"}
        /\ traits.decision_style = "Balanced"
        /\ traits.execution_mode = "Exploratory"
        /\ traits.risk_profile = "Moderate"
        /\ traits.abstraction_level = "Concrete or tactical thinker"
        /\ traits.learning_style = "Practical (how-driven)"

\* the all-zero vector has been mapped
C21_Witness ==
    /\ \A n \in SignalNames : signals[n] = 0
    /\ traits.risk_profile = "Moderate"

(***************************************************************************)
(* C22.  Within one invocation the stages run strictly in order and each   *)
(* at most once: redaction before extraction, extraction before            *)
(* formatting, formatting before the write; and every piece of             *)
(* input-derived text in the written artifact was taken from the redacted  *)
(* text, never from the raw text.                                          *)
(***************************************************************************)
\* the trimmed lines of a text
TrimmedLines(text) ==
    { Strip(SplitLines(text)[i]) : i \in 1..Len(SplitLines(text)) }

\* the bullets of the written file that are not lines of the template
WrittenBullets == { pFile[i].body : i \in { j \in 1..Len(pFile) : pFile[j].kind = "bullet" } }

C22_StagesInOrder ==
    /\ Len(pTrace) <= Len(StageOrder)
    /\ pTrace = SubSeq(StageOrder, 1, Len(pTrace))
    /\ Len(pTrace) < 1 => pRedacted = <<>>
    /\ Len(pTrace) < 2 => pPatterns = NoPatterns
    /\ Len(pTrace) < 3 => pText = <<>>
    /\ Len(pTrace) < 4 => pFile = <<>>
    /\ \A b \in WrittenBullets :
          /\ \E l \in TrimmedLines(pRedacted) : b = CleanItem(l)
          /\ Contains(<<"@">>, pRaw) => ~Contains(<<"@">>, b)

\* the file is written, it holds a line in its redacted form that differs
\* from its raw form, and a raw line with a keyword inside an address has
\* given no bullet
C22_Witness ==
    /\ pTrace = StageOrder
    /\ \E b \in WrittenBullets :
          /\ Contains(EmailTag, b)
          /\ b \notin TrimmedLines(pRaw)
    /\ \E l \in TrimmedLines(pRaw) :
          /\ AnyKeyword(concept_keywords, ToLower(l))
          /\ \A b \in WrittenBullets : ~Contains(<<"t","o","d","a","y">>, b)
          /\ Contains(<<"t","o","d","a","y">>, l)

(***************************************************************************)
(* C23.  The output location is not protected by any lock: an invocation   *)
(* can open the file whatever the other one is doing, and with two         *)
(* concurrent invocations there is an interleaving after which the file of *)
(* the output location does not come from one invocation: when the         *)
(* invocation with the longer text writes between the open and the write   *)
(* of the other, the file ends with the rest of the longer text.           *)
(***************************************************************************)
\* both invocations have written
BothWritten == \A i \in Invocations : rcPc[i] = "written"

\* i wrote last and j wrote after i had opened the file
WroteInside(i, j) ==
    /\ BothWritten
    /\ rcTrace[Len(rcTrace)] = FileOp(i, "write")
    /\ \E a, b \in 1..Len(rcTrace) :
          /\ a < b
          /\ rcTrace[a] = FileOp(i, "open")
          /\ rcTrace[b] = FileOp(j, "write")

C23_UnlockedRace ==
    /\ \A i \in Invocations : rcPc[i] = "start" => ENABLED RaceOpen(i)
    /\ \A i \in Invocations : rcPc[i] = "opened" => ENABLED RaceWrite(i)
    /\ \A i, j \in Invocations :
          (i # j /\ WroteInside(i, j) /\ Len(rcText[j]) > Len(rcText[i])) =>
              /\ rcFile # rcText[i]
              /\ rcFile # rcText[j]
              /\ SubSeq(rcFile, 1, Len(rcText[i])) = rcText[i]
              /\ Len(rcFile) = Len(rcText[j])

\* both invocations are done and the file is the text of neither
C23_Witness ==
    /\ BothWritten
    /\ \A i \in Invocations : rcFile # rcText[i]

(***************************************************************************)
(* C24.  For every input text and every rule, the redaction count that     *)
(* distill reports for the rule equals the number of substitutions the     *)
(* rule performed while redacting that text; rules without a substitution  *)
(* are omitted.                                                            *)
(***************************************************************************)
\* the count _count_redactions reports for rule k on the text (0: omitted)
ReportedCount(k, content) ==
    LET counts == CountRedactions(content)
        hit    == { i \in 1..Len(counts) : counts[i].name = PII_PATTERNS[k].name }
    IN  IF hit = {} THEN 0 ELSE counts[CHOOSE i \in hit : TRUE].count

\* rule rIdx has just run in the first pass: the matches it replaced in the
\* text as the loop handed it over
Substitutions == ReCount(PII_PATTERNS[rIdx].pattern, rPrev)

C24_CountsAreSubstitutions ==
    (rPass = 1 /\ rIdx > 0) => ReportedCount(rIdx, rIn) = Substitutions

(***************************************************************************)
(* C25.  After any sequence of store_memory requests the table memory_data *)
(* holds at most one row for each (file_path, file_hash) pair, pairs whose *)
(* file_hash was omitted included.                                         *)
(***************************************************************************)
C25_OneRowPerPair ==
    \A i, j \in 1..Len(stRows) :
        (/\ stRows[i].file_path = stRows[j].file_path
         /\ stRows[i].file_hash = stRows[j].file_hash) => i = j

(***************************************************************************)
(* C26.  When two store_memory requests that carry the same not yet stored *)
(* (file_path, file_hash) item run concurrently, both requests succeed     *)
(* under every interleaving and no other item of either batch is lost.     *)
(***************************************************************************)
\* every item of the request carries a file_hash
AllHashed(r) ==
    \A i \in 1..Len(stReq[r].batch) : stReq[r].batch[i].file_hash # NoHash

C26_ConcurrentStoresSucceed ==
    \A r \in StoreSlots :
        AllHashed(r) =>
            /\ stReq[r].status # "error"
            /\ stReq[r].status = "ok" =>
                  \A i \in 1..Len(stReq[r].batch) :
                      stReq[r].batch[i].file_path # "" =>
                          \E k \in 1..Len(stRows) :
                              SameKey(stRows[k], stReq[r].batch[i])

(***************************************************************************)
(* C27.  For every persona_id returned by a successful upload_persona,     *)
(* get_persona(persona_id) returns exactly the content of that upload      *)
(* after any later sequence of upload requests, successful or failed; a    *)
(* failed upload leaves every stored persona's file and row unchanged.     *)
(***************************************************************************)
C27_StoredPersonaKept ==
    \A persona_id \in DOMAIN pnReturned :
        GetPersona(persona_id) = [code |-> 200, content |-> pnReturned[persona_id]]

(***************************************************************************)
(* C28.  pull_persona_by_token writes files only for the seller the token  *)
(* maps to and only inside personas/<seller_user_id> under the workspace:  *)
(* for every stored asset file_path no file outside that directory is      *)
(* created or overwritten, and a token without a rental row causes no file *)
(* or directory to be written.                                             *)
(***************************************************************************)
\* the path lies below the directory
Below(path, dir) ==
    /\ Len(path) > Len(dir)
    /\ SubSeq(path, 1, Len(dir)) = dir

C28_OnlyInsidePersonaDir ==
    /\ \A f \in DOMAIN plFiles : Below(f, PersonaBaseDir(SellerUid))
    /\ \A d \in plDirs :
          d = PersonaBaseDir(SellerUid) \/ Below(d, PersonaBaseDir(SellerUid))

(***************************************************************************)
(* C29.  After a seller has synced a .mindprint file several times with    *)
(* changed content, a pull with a valid token for that seller leaves, at   *)
(* each pulled path, the content of the most recent sync of that file,     *)
(* never an older version.                                                 *)
(***************************************************************************)
\* a pull with the valid token
ValidPull ==
    \E order \in Orders({ r \in memoryData : r.user_id = SellerUid }) :
        PullPersona("tok1", order)

C29_PullLeavesLatest ==
    [][(ValidPull /\ dbUp) =>
          \A d \in DOMAIN plLatest :
              LET target == TargetFile(PersonaBaseDir(SellerUid), d)
              IN  /\ target \in DOMAIN plFiles'
                  /\ plFiles'[target] = plLatest[d]]_vars

(***************************************************************************)
(* C30.  In every rendered cognition document the concepts section lists   *)
(* at most 10 bullets, the methodologies section at most 10 and the        *)
(* insights section at most 5, no bullet text is repeated within a         *)
(* section, and a concepts or methodologies section with no extracted item *)
(* shows its two fixed default bullets instead of being empty.             *)
(***************************************************************************)
\* the position of the heading in the rendered text (0: not there)
HeadingAt(lit) ==
    LET at == { i \in 1..Len(pText) : pText[i].kind = "fixed" /\ pText[i].lit = lit }
    IN  IF at = {} THEN 0 ELSE CHOOSE i \in at : TRUE

\* the positions of the section under the heading: up to the next heading
SectionOf(lit) ==
    LET from == HeadingAt(lit)
        next == { i \in (from + 1)..Len(pText) :
                    pText[i].kind = "fixed" /\ Len(pText[i].lit) > 1
                    /\ SubSeq(pText[i].lit, 1, 2) = "##" }
    IN  IF from = 0 THEN {}
        ELSE { i \in (from + 1)..Len(pText) : \A n \in next : i < n }

\* the positions of the bullets made of extracted items in the section
ItemBullets(lit) == { i \in SectionOf(lit) : pText[i].kind = "bullet" }

NoRepeat(lit) ==
    \A i, j \in ItemBullets(lit) : pText[i].body = pText[j].body => i = j

\* the section holds exactly these two bullets
ShowsDefaults(lit, defaults) ==
    /\ ItemBullets(lit) = {}
    /\ \A k \in 1..Len(defaults) : \E i \in SectionOf(lit) : pText[i] = defaults[k]

C30_SectionLimits ==
    pText # <<>> =>
        /\ Cardinality(ItemBullets("## Core Concepts & Frameworks")) <= 10
        /\ Cardinality(ItemBullets("## Methodologies & Approaches")) <= 10
        /\ Cardinality(ItemBullets("## Key Insights")) <= 5
        /\ NoRepeat("## Core Concepts & Frameworks")
        /\ NoRepeat("## Methodologies & Approaches")
        /\ NoRepeat("## Key Insights")
        /\ pPatterns.concepts = <<>> =>
              ShowsDefaults("## Core Concepts & Frameworks", DefaultConcepts)
        /\ pPatterns.methodologies = <<>> =>
              ShowsDefaults("## Methodologies & Approaches", DefaultMethodologies)

\* twelve distinct concepts, two of them given twice, and six insights have
\* been rendered as 10 and 5 bullets, next to the default methodologies
C30_Witness ==
    /\ pPatterns.concepts = ConceptItems
    /\ pPatterns.learnings = LearningItems
    /\ pPatterns.methodologies = <<>>
    /\ Cardinality(ItemBullets("## Core Concepts & Frameworks")) = 10
    /\ Cardinality(ItemBullets("## Key Insights")) = 5
    /\ ShowsDefaults("## Methodologies & Approaches", DefaultMethodologies)

====
